---- MODULE Spec2Model ----
(***************************************************************************)
(* Model of the toolkit manifest tooling of spec-crew:                     *)
(*   scripts/toolkit_manifest_utils.py   (validator, renderer, drift check)*)
(*   scripts/sync_toolkit_manifest.py    (the write path)                  *)
(*   scripts/validate_toolkit_manifest.py (the read-only check path)       *)
(*                                                                         *)
(* A text is a sequence of tokens (strings); the text it stands for is the *)
(* concatenation of its tokens.  Every marker and every "\n" is a token of *)
(* its own, so str.find on a marker is the first index of that token.      *)
(* A JSON value whose type the code inspects is a record with a type tag   *)
(* t: "str" | "absent" | "list" for a scalar position, and                 *)
(* "strlist" | "absent" | "int" | "str" for a list position.               *)
(* A Python dict is a sequence of entries in insertion order.              *)
(***************************************************************************)
EXTENDS Integers, Sequences, FiniteSets, TLC

VARIABLES
    manifest,   \* parsed content of toolkit/manifest.json
    registry,   \* content of toolkit/registry.json, or Missing
    install,    \* content of install.sh, or Missing
    readme,     \* content of README.md, or Missing
    paths,      \* the template / system files that exist under the repo root
    agentFiles, \* front matter of each agent file under templates/shared/agents/crewai
    lastOp,     \* which program ran last: "none", "edit", "sync", "validate"
    exitCode,   \* exit status of that program
    raised,     \* the uncaught exception that ended it, or "none"
    errors,     \* the error list it printed
    ran,        \* the stages of it that were entered
    edits,      \* number of maintainer edits so far
    syncs,      \* number of sync runs so far
    routing,    \* a call of route_query: its arguments and what it returned
    harness     \* the reliability harness: its loop position, counters and report

vars == <<manifest, registry, install, readme, paths, agentFiles, lastOp, exitCode,
          raised, errors, ran, edits, syncs, routing, harness>>

\* ------------------------------------------------------------------ bounds

MaxEdits == 2
MaxSyncs == 1

\* --------------------------------------------------------------- constants

MANIFEST_FILE == "toolkit/manifest.json"
MANIFEST_SCHEMA_FILE == "toolkit/manifest.schema.json"
RUNTIME_REGISTRY_FILE == "toolkit/registry.json"
INSTALL_SCRIPT_FILE == "install.sh"
README_FILE == "README.md"

INSTALL_BLOCK_BEGIN == "# BEGIN GENERATED: TOOLKIT_PACKAGE_LISTS"
INSTALL_BLOCK_END == "# END GENERATED: TOOLKIT_PACKAGE_LISTS"
README_WHATS_INSIDE_BEGIN == "<!-- BEGIN GENERATED: TOOLKIT_WHATS_INSIDE -->"
README_WHATS_INSIDE_END == "<!-- END GENERATED: TOOLKIT_WHATS_INSIDE -->"
README_INSTALLER_COUNTS_BEGIN == "<!-- BEGIN GENERATED: TOOLKIT_INSTALLER_COUNTS -->"
README_INSTALLER_COUNTS_END == "<!-- END GENERATED: TOOLKIT_INSTALLER_COUNTS -->"
README_INDEX_BEGIN == "<!-- BEGIN GENERATED: TOOLKIT_INDEX -->"
README_INDEX_END == "<!-- END GENERATED: TOOLKIT_INDEX -->"

Missing == <<"<no such file>">>
NL == "\n"
\* the token of the back-tick character (U+0060), which a TLA+ string cannot hold
BT == "<backtick>"

\* ----------------------------------------------------------- sequence helpers

RECURSIVE FlattenRange(_, _, _)
\* the concatenation of ss[lo..hi]
FlattenRange(ss, lo, hi) ==
    IF lo > hi THEN <<>>
    ELSE IF lo = hi THEN ss[lo]
    ELSE LET mid == (lo + hi) \div 2
         IN FlattenRange(ss, lo, mid) \o FlattenRange(ss, mid + 1, hi)

Flatten(ss) == FlattenRange(ss, 1, Len(ss))

\* sep.join(parts): parts is a sequence of texts, sep a text
Join(parts, sep) ==
    Flatten([i \in 1..Len(parts) |-> IF i = 1 THEN parts[i] ELSE sep \o parts[i]])

Map(f(_), s) == [i \in 1..Len(s) |-> f(s[i])]

\* the least i >= from with s[i] = tok, or 0
SelectIdx(s, tok, from) ==
    LET hits == {i \in from..Len(s) : s[i] = tok}
    IN IF hits = {} THEN 0 ELSE CHOOSE i \in hits : \A j \in hits : i <= j

Range(s) == {s[i] : i \in 1..Len(s)}

\* str.find(marker, start) on token positions 1..Len; 0 stands for -1
Find(text, marker, start) == SelectIdx(text, marker, start)

\* lexicographic order of the names of the model, as sorted() orders them
SortOrder == <<INSTALL_BLOCK_END, "auditor", "builder", "core-build", "create-crew",
               "fix", "flows", "ghost", "init", "inspect", "phantom", "review">>

sorted(S) == SelectSeq(SortOrder, LAMBDA n : n \in S)

\* -------------------------------------------------------------- the manifest

EntryName(e) == e.name

\* faulty variant: the keys sorted instead of in insertion order
keys_sorted(data) == sorted(Range(Map(EntryName, data)))

keys_in_order(data) == Map(EntryName, data)

command_canonical_names(m) == keys_in_order(m.commands.canonical)
agent_canonical_names(m) == keys_in_order(m.agents.canonical)
skill_canonical_names(m) == keys_in_order(m.skills.canonical)
workflow_names(m) == keys_in_order(m.workflows.canonical)

manifest_counts(m) ==
    [skills    |-> Len(skill_canonical_names(m)),
     agents    |-> Len(agent_canonical_names(m)),
     commands  |-> Len(command_canonical_names(m)),
     workflows |-> Len(workflow_names(m))]

AgentPackage(name) == <<"crewai/", name>>
CommandPackage(name) == <<"crew/", name>>
PlainPackage(name) == <<name>>

\* each package is the text of one array item (prefix and name)
build_package_lists(m) ==
    [PKG_SKILLS    |-> Map(PlainPackage, skill_canonical_names(m)),
     PKG_AGENTS    |-> Map(AgentPackage, agent_canonical_names(m)),
     PKG_WORKFLOWS |-> Map(PlainPackage, workflow_names(m)),
     PKG_COMMANDS  |-> Map(CommandPackage, command_canonical_names(m))]

BashItem(value) == <<"    \"">> \o value \o <<"\"">>

render_bash_array(name, values) ==
    Join(<< <<name, "=(">> >> \o Map(BashItem, values) \o << <<")">> >>, <<NL>>)

render_install_block(m) ==
    LET package_lists == build_package_lists(m)
    IN Join(<< <<INSTALL_BLOCK_BEGIN>>,
               render_bash_array("PKG_SKILLS", package_lists.PKG_SKILLS),
               <<>>,
               render_bash_array("PKG_AGENTS", package_lists.PKG_AGENTS),
               <<>>,
               render_bash_array("PKG_WORKFLOWS", package_lists.PKG_WORKFLOWS),
               <<>>,
               render_bash_array("PKG_COMMANDS", package_lists.PKG_COMMANDS),
               <<INSTALL_BLOCK_END>> >>, <<NL>>)

format_code_list(items, prefix) ==
    LET Quoted(item) == <<BT, prefix, item, BT>>
    IN Join(Map(Quoted, items), <<", ">>)

render_readme_whats_inside_block(m) ==
    LET counts == manifest_counts(m)
    IN Join(<< <<README_WHATS_INSIDE_BEGIN>>,
               <<"- **", ToString(counts.skills), " Skill Packs**">>,
               <<"- **", ToString(counts.agents), " Core Agents**">>,
               <<"- **", ToString(counts.commands), " Canonical Commands**">>,
               <<"- **", ToString(counts.workflows), " Workflows** that guide you step by step">>,
               <<README_WHATS_INSIDE_END>> >>, <<NL>>)

render_readme_installer_counts_block(m) ==
    LET counts == manifest_counts(m)
    IN Join(<< <<README_INSTALLER_COUNTS_BEGIN>>,
               <<"- ", ToString(counts.skills), " Skills">>,
               <<"- ", ToString(counts.agents), " Agents">>,
               <<"- ", ToString(counts.workflows), " Workflows">>,
               <<"- ", ToString(counts.commands), " Commands">>,
               <<README_INSTALLER_COUNTS_END>> >>, <<NL>>)

render_readme_index_block(m) ==
    LET canonical_commands == command_canonical_names(m)
        canonical_agents == agent_canonical_names(m)
        canonical_skills == skill_canonical_names(m)
        workflows == workflow_names(m)
    IN Join(<< <<README_INDEX_BEGIN>>,
               <<"- **Canonical commands (", ToString(Len(canonical_commands)), "):** ">>
                   \o format_code_list(canonical_commands, "/crew "),
               <<"- **Canonical agents (", ToString(Len(canonical_agents)), "):** ">>
                   \o format_code_list(canonical_agents, ""),
               <<"- **Canonical skill packs (", ToString(Len(canonical_skills)), "):** ">>
                   \o format_code_list(canonical_skills, ""),
               <<"- **Workflows (", ToString(Len(workflows)), "):** ">>
                   \o format_code_list(workflows, ""),
               <<README_INDEX_END>> >>, <<NL>>)

\* ------------------------------------------------- marker replace / extract

\* a call's outcome: the exception it raised ("none" if it returned) and its value
Ok(v) == [raised |-> "none", msg |-> <<>>, value |-> v]
Raise(kind, msg) == [raised |-> kind, msg |-> msg, value |-> <<>>]

\* faulty variant: the slice before the block runs past the begin marker
replace_block_keeps_begin(text, begin_marker, end_marker, block) ==
    LET start == Find(text, begin_marker, 1)
        end == Find(text, end_marker, start)
        replacement == IF block # <<>> /\ block[Len(block)] = NL
                       THEN block ELSE block \o <<NL>>
    IN IF start = 0 THEN Raise("ValueError", <<"missing start marker: ", begin_marker>>)
       ELSE IF end = 0 THEN Raise("ValueError", <<"missing end marker: ", end_marker>>)
       ELSE Ok(SubSeq(text, 1, start) \o replacement
               \o SubSeq(text, end + 1, Len(text)))

\* faulty variant: the end marker is searched from the top of the text
replace_block_any_end(text, begin_marker, end_marker, block) ==
    LET start == Find(text, begin_marker, 1)
        end == Find(text, end_marker, 1)
        replacement == IF block # <<>> /\ block[Len(block)] = NL
                       THEN block ELSE block \o <<NL>>
    IN IF start = 0 THEN Raise("ValueError", <<"missing start marker: ", begin_marker>>)
       ELSE IF end = 0 THEN Raise("ValueError", <<"missing end marker: ", end_marker>>)
       ELSE Ok(SubSeq(text, 1, start - 1) \o replacement
               \o SubSeq(text, end + 1, Len(text)))

replace_block(text, begin_marker, end_marker, block) ==
    LET start == Find(text, begin_marker, 1)
        end == Find(text, end_marker, start)
        replacement == IF block # <<>> /\ block[Len(block)] = NL
                       THEN block ELSE block \o <<NL>>
    IN IF start = 0 THEN Raise("ValueError", <<"missing start marker: ", begin_marker>>)
       ELSE IF end = 0 THEN Raise("ValueError", <<"missing end marker: ", end_marker>>)
       ELSE Ok(SubSeq(text, 1, start - 1) \o replacement
               \o SubSeq(text, end + 1, Len(text)))

extract_block(text, begin_marker, end_marker) ==
    LET start == Find(text, begin_marker, 1)
        end == Find(text, end_marker, start)
    IN IF start = 0 THEN Raise("ValueError", <<"missing start marker: ", begin_marker>>)
       ELSE IF end = 0 THEN Raise("ValueError", <<"missing end marker: ", end_marker>>)
       ELSE Ok(SubSeq(text, start, end))

apply_generated_install_block(install_text, m) ==
    replace_block(install_text, INSTALL_BLOCK_BEGIN, INSTALL_BLOCK_END,
                  render_install_block(m))

apply_generated_readme_blocks(readme_text, m) ==
    LET u1 == replace_block(readme_text, README_WHATS_INSIDE_BEGIN,
                            README_WHATS_INSIDE_END,
                            render_readme_whats_inside_block(m))
        u2 == replace_block(u1.value, README_INSTALLER_COUNTS_BEGIN,
                            README_INSTALLER_COUNTS_END,
                            render_readme_installer_counts_block(m))
        u3 == replace_block(u2.value, README_INDEX_BEGIN, README_INDEX_END,
                            render_readme_index_block(m))
    IN IF u1.raised # "none" THEN u1
       ELSE IF u2.raised # "none" THEN u2
       ELSE u3

\* ------------------------------------------------------------ JSON values

Str(v) == [t |-> "str", v |-> v]
Absent == [t |-> "absent", v |-> ""]          \* key absent or null: .get gives None
Unhashable == [t |-> "list", v |-> ""]        \* a JSON list or object where a name is expected
StrList(items) == [t |-> "strlist", v |-> items]
AbsentList == [t |-> "absent", v |-> <<>>]
IntVal == [t |-> "int", v |-> <<>>]           \* a number where a list is expected
BareStr(chars) == [t |-> "str", v |-> chars]  \* a string where a list is expected

\* str(value) inside an f-string
PyStr(val) == IF val.t = "str" THEN val.v ELSE "None"

\* repr() of a list of strings
ListRepr(names) ==
    LET Quoted(n) == <<"'", n, "'">>
    IN <<"[">> \o Join(Map(Quoted, names), <<", ">>) \o <<"]">>

\* ------------------------------------------------- text of a trigger phrase
\* A phrase is a sequence of pieces: runs of letters and single whitespace
\* characters.

Whitespace == {" ", "\t"}

\* str.lower() on a run of letters
LowerPiece(piece) ==
    CASE piece = "Scaffold" -> "scaffold"
      [] piece = "PROJECT" -> "project"
      [] piece = "Build" -> "build"
      [] OTHER -> piece

lower(phrase) == Map(LowerPiece, phrase)

RECURSIVE Concat(_)
\* the string a sequence of pieces spells
Concat(pieces) == IF pieces = <<>> THEN "" ELSE Head(pieces) \o Concat(Tail(pieces))

\* str.split(): the maximal runs of non-whitespace, in order
split(phrase) ==
    LET idx == [i \in 1..Len(phrase) |-> i]
        IsStart(i) == phrase[i] \notin Whitespace /\ (i = 1 \/ phrase[i - 1] \in Whitespace)
        IsEnd(j) == phrase[j] \notin Whitespace
                    /\ (j = Len(phrase) \/ phrase[j + 1] \in Whitespace)
        starts == SelectSeq(idx, IsStart)
        ends == SelectSeq(idx, IsEnd)
    IN [k \in 1..Len(starts) |-> Concat(SubSeq(phrase, starts[k], ends[k]))]

\* faulty variant: the phrase is not lowercased
NormalizeTrigger_keeps_case(trigger) ==
    LET words == split(trigger)
    IN Concat([i \in 1..(2 * Len(words) - 1) |->
                   IF i % 2 = 1 THEN words[(i + 1) \div 2] ELSE " "])

\* " ".join(trigger.lower().split())
NormalizeTrigger(trigger) ==
    LET words == split(lower(trigger))
    IN Concat([i \in 1..(2 * Len(words) - 1) |->
                   IF i % 2 = 1 THEN words[(i + 1) \div 2] ELSE " "])

\* outcome of a validator stage: the exception it raised and the errors it appended
Stage(kind, errs) == [raised |-> kind, errs |-> errs]

RECURSIVE FirstRaised(_)
FirstRaised(stages) ==
    IF stages = <<>> THEN "none"
    ELSE IF Head(stages).raised # "none" THEN Head(stages).raised
    ELSE FirstRaised(Tail(stages))

StageErrs(st) == st.errs
\* the stages run in order; the first exception ends the call and loses the list
Chain(stages) ==
    IF FirstRaised(stages) # "none" THEN Stage(FirstRaised(stages), <<>>)
    ELSE Stage("none", Flatten(Map(StageErrs, stages)))

check_string_list(value) == value.t = "strlist"

required_top == <<"schema_version", "phase", "commands", "agents", "skills",
                  "workflows", "installation">>

\* errors of the top-level key loop
TopLevelErrors(m) ==
    LET Msg(key) == IF key \in m.keys THEN <<>>
                    ELSE << <<"manifest missing top-level key ", BT, key, BT>> >>
    IN Flatten(Map(Msg, required_top))

\* errors of the section shape checks
ShapeErrors(m) ==
    LET Section(section_name) ==
            LET section == m[section_name]
            IN IF ~section.obj
               THEN << <<"manifest ", BT, section_name, BT, " must be an object">> >>
               ELSE IF section.canon # "ok"
               THEN << <<"manifest missing ", BT, section_name, ".canonical", BT, " object">> >>
               ELSE <<>>
        Skills ==
            IF ~m.skills.obj
            THEN << <<"manifest ", BT, "skills", BT, " must be an object">> >>
            ELSE (IF m.skills.canon # "ok"
                  THEN << <<"manifest missing ", BT, "skills.canonical", BT, " object">> >>
                  ELSE <<>>)
                 \o
                 (IF m.skills.policy # "ok"
                  THEN << <<"manifest missing ", BT, "skills.command_policy", BT, " object">> >>
                  ELSE <<>>)
        Installation ==
            IF ~m.installation.obj \/ m.installation.sf # "ok"
            THEN << <<"manifest missing ", BT, "installation.system_files", BT, " object">> >>
            ELSE <<>>
    IN Flatten(Map(Section, <<"commands", "agents", "workflows">>))
       \o Skills \o Installation

SchemaErrors(m) ==
    IF m.schema_version # "1.0"
    THEN << <<"unsupported schema_version ", BT, m.schema_version, BT,
              "; expected ", BT, "1.0", BT>> >>
    ELSE <<>>

\* faulty variant: the owner is only required to be a string
CommandOwnerStage_any_name(m) ==
    LET One(config) ==
            IF ~config.obj THEN Stage("AttributeError", <<>>)
            ELSE IF config.owner.t = "list" THEN Stage("TypeError", <<>>)
            ELSE IF config.owner.t = "str" THEN Stage("none", <<>>)
            ELSE Stage("none", << <<"command ", BT, config.name, BT, " owner ", BT,
                                    PyStr(config.owner), BT,
                                    " is not a canonical agent">> >>)
    IN Chain(Map(One, m.commands.canonical))

\* the loop over commands.canonical
CommandOwnerStage(m) ==
    LET canonical_agents == Range(agent_canonical_names(m))
        One(config) ==
            IF ~config.obj THEN Stage("AttributeError", <<>>)
            ELSE IF config.owner.t = "list" THEN Stage("TypeError", <<>>)
            ELSE IF config.owner.t = "str" /\ config.owner.v \in canonical_agents
            THEN Stage("none", <<>>)
            ELSE Stage("none", << <<"command ", BT, config.name, BT, " owner ", BT,
                                    PyStr(config.owner), BT,
                                    " is not a canonical agent">> >>)
    IN Chain(Map(One, m.commands.canonical))

\* the loop over skills.canonical
SkillStage(m) ==
    LET canonical_agents == Range(agent_canonical_names(m))
        One(config) ==
            LET owners == config.owners
                triggers == config.triggers
                unknown_owners == sorted(Range(owners.v) \ canonical_agents)
                OwnerErrs ==
                    IF ~check_string_list(owners) \/ owners.v = <<>>
                    THEN << <<"skill ", BT, config.name, BT, " must define non-empty ",
                              BT, "owners", BT, " list">> >>
                    ELSE IF unknown_owners # <<>>
                    THEN << <<"skill ", BT, config.name, BT, " has unknown owners: ">>
                            \o Join(Map(PlainPackage, unknown_owners), <<", ">>) >>
                    ELSE <<>>
                TriggerErrs ==
                    IF ~check_string_list(triggers) \/ triggers.v = <<>>
                    THEN << <<"skill ", BT, config.name, BT, " must define non-empty ",
                              BT, "triggers", BT, " list">> >>
                    ELSE <<>>
            IN IF ~config.obj THEN Stage("AttributeError", <<>>)
               ELSE Stage("none", OwnerErrs \o TriggerErrs)
    IN Chain(Map(One, m.skills.canonical))

\* the command_policy checks
PolicyStage(m) ==
    LET canonical_commands == Range(command_canonical_names(m))
        canonical_skills == Range(skill_canonical_names(m))
        command_policy == m.skills.command_policy
        KeysErrs ==
            IF Range(keys_in_order(command_policy)) # canonical_commands
            THEN << <<BT, "skills.command_policy", BT,
                      " keys must match canonical commands: ", "expected ">>
                    \o ListRepr(sorted(canonical_commands)) \o <<", got ">>
                    \o ListRepr(sorted(Range(keys_in_order(command_policy)))) >>
            ELSE <<>>
        One(policy) ==
            LET primary == policy.primary
                optional == policy.optional
                PrimaryErrs ==
                    IF primary.t = "str" /\ primary.v \in canonical_skills THEN <<>>
                    ELSE << <<"command policy ", BT, policy.name, BT,
                              " references unknown primary skill ", BT,
                              PyStr(primary), BT>> >>
                Opt(skill_name) ==
                    (IF skill_name \notin canonical_skills
                     THEN << <<"command policy ", BT, policy.name, BT,
                               " references unknown optional skill ", BT,
                               skill_name, BT>> >>
                     ELSE <<>>)
                    \o
                    (IF primary.t = "str" /\ skill_name = primary.v
                     THEN << <<"command policy ", BT, policy.name, BT,
                               " optional includes primary skill ", BT,
                               PyStr(primary), BT>> >>
                     ELSE <<>>)
            IN IF ~policy.obj THEN Stage("AttributeError", <<>>)
               ELSE IF primary.t = "list" THEN Stage("TypeError", <<>>)
               ELSE IF ~check_string_list(optional)
               THEN Stage("none", PrimaryErrs \o
                          << <<"command policy ", BT, policy.name, BT,
                               " optional must be string list">> >>)
               ELSE Stage("none", PrimaryErrs \o Flatten(Map(Opt, optional.v)))
    IN Chain(<<Stage("none", KeysErrs)>> \o Map(One, command_policy))

\* dict.get(platform) on installation.system_files
SystemFilesGet(m, platform) ==
    LET hits == SelectSeq(m.installation.system_files, LAMBDA e : e.name = platform)
    IN IF hits = <<>> THEN AbsentList ELSE hits[1].entries

SystemFilesErrors(m) ==
    LET One(platform) ==
            LET entries == SystemFilesGet(m, platform)
            IN IF ~check_string_list(entries) \/ entries.v = <<>>
               THEN << <<"installation.system_files.", platform,
                         " must be a non-empty string list">> >>
               ELSE <<>>
    IN Flatten(Map(One, <<"claude", "opencode">>))

validate_manifest_structure(m) ==
    IF TopLevelErrors(m) # <<>> THEN Stage("none", TopLevelErrors(m))
    ELSE IF SchemaErrors(m) \o ShapeErrors(m) # <<>>
    THEN Stage("none", SchemaErrors(m) \o ShapeErrors(m))
    ELSE Chain(<<CommandOwnerStage(m),
                 SkillStage(m),
                 PolicyStage(m),
                 Stage("none", SystemFilesErrors(m))>>)


\* ------------------------------------------------------ access to a section

RECURSIVE FirstKind(_)
\* the first exception of a sequence of evaluations ("none" if none raises)
FirstKind(kinds) ==
    IF kinds = <<>> THEN "none"
    ELSE IF Head(kinds) # "none" THEN Head(kinds)
    ELSE FirstKind(Tail(kinds))

\* what manifest[key]["canonical"].items() (or .keys()) raises
CanonicalAccess(m, key) ==
    IF key \notin m.keys THEN "KeyError"
    ELSE IF ~m[key].obj THEN "TypeError"
    ELSE IF m[key].canon = "missing" THEN "KeyError"
    ELSE IF m[key].canon = "bad" THEN "AttributeError"
    ELSE "none"

\* what manifest["installation"]["system_files"].items() raises
SystemFilesAccess(m) ==
    IF "installation" \notin m.keys THEN "KeyError"
    ELSE IF ~m.installation.obj THEN "TypeError"
    ELSE IF m.installation.sf = "missing" THEN "KeyError"
    ELSE IF m.installation.sf = "bad" THEN "AttributeError"
    ELSE "none"

\* what manifest["skills"]["command_policy"] raises (the value is not inspected)
PolicyAccess(m) ==
    IF "skills" \notin m.keys THEN "KeyError"
    ELSE IF ~m.skills.obj THEN "TypeError"
    ELSE IF m.skills.policy = "missing" THEN "KeyError"
    ELSE "none"

AccessAll(m, section_keys) ==
    FirstKind([i \in 1..Len(section_keys) |-> CanonicalAccess(m, section_keys[i])])

\* what each render function raises, by the order in which it reads the sections
InstallBlockRaises(m) == AccessAll(m, <<"skills", "agents", "workflows", "commands">>)
CountsRaises(m) == AccessAll(m, <<"skills", "agents", "commands", "workflows">>)
IndexBlockRaises(m) == AccessAll(m, <<"commands", "agents", "skills", "workflows">>)

\* ------------------------------------------------------- template resolver

Path(v) == [t |-> "str", v |-> v]
NoPath == [t |-> "absent", v |-> <<>>]

CommandTemplate(name) == <<"templates/shared/commands/crew/", name, ".md">>
AgentTemplate(name) == <<"templates/shared/agents/crewai/", name, ".md">>
SkillTemplate(name) == <<"templates/shared/skills/", name, "/SKILL.md">>
WorkflowTemplate(name) == <<"templates/shared/workflows/", name, "/SKILL.md">>

ExpectedTemplate(kind, name) ==
    CASE kind = "commands" -> CommandTemplate(name)
      [] kind = "agents" -> AgentTemplate(name)
      [] kind = "skills" -> SkillTemplate(name)
      [] kind = "workflows" -> WorkflowTemplate(name)

\* faulty variant: the existence check is made after a mismatch too
verify_entry_checks_both(existing, name, configured_path, expected_path) ==
    (IF configured_path.t # "str" \/ configured_path.v # expected_path
     THEN << <<BT>> \o name \o <<BT, " template mismatch: expected ", BT>>
             \o expected_path \o <<BT, ", got ", BT>>
             \o (IF configured_path.t = "str" THEN configured_path.v ELSE <<"None">>)
             \o <<BT>> >>
     ELSE <<>>)
    \o
    (IF configured_path.t = "str" /\ configured_path.v \notin existing
     THEN << <<"missing referenced template file: ">> \o configured_path.v >>
     ELSE <<>>)

verify_entry(existing, name, configured_path, expected_path) ==
    IF configured_path.t # "str" \/ configured_path.v # expected_path
    THEN << <<BT>> \o name \o <<BT, " template mismatch: expected ", BT>>
            \o expected_path \o <<BT, ", got ", BT>>
            \o (IF configured_path.t = "str" THEN configured_path.v ELSE <<"None">>)
            \o <<BT>> >>
    ELSE IF configured_path.v \notin existing
    THEN << <<"missing referenced template file: ">> \o configured_path.v >>
    ELSE <<>>

\* one of the four loops over a canonical section
TemplateStage(existing, m, kind) ==
    LET One(config) ==
            IF ~config.obj THEN Stage("AttributeError", <<>>)
            ELSE Stage("none",
                       verify_entry(existing, <<kind, ".canonical.", config.name>>,
                                    config.template,
                                    ExpectedTemplate(kind, config.name)))
    IN IF CanonicalAccess(m, kind) # "none" THEN Stage(CanonicalAccess(m, kind), <<>>)
       ELSE Chain(Map(One, m[kind].canonical))

\* the loop over installation.system_files
SystemFilesStage(existing, m) ==
    LET Entry(platform, entry) ==
            IF <<entry>> \notin existing
            THEN << <<"installation.system_files.", platform,
                      " references missing file: ", entry>> >>
            ELSE <<>>
        One(e) ==
            IF e.entries.t \in {"absent", "int"} THEN Stage("TypeError", <<>>)
            ELSE Stage("none",
                       Flatten([i \in 1..Len(e.entries.v) |-> Entry(e.name, e.entries.v[i])]))
    IN IF SystemFilesAccess(m) # "none" THEN Stage(SystemFilesAccess(m), <<>>)
       ELSE Chain(Map(One, m.installation.system_files))

validate_template_references(existing, m) ==
    Chain(<<TemplateStage(existing, m, "commands"),
            TemplateStage(existing, m, "agents"),
            TemplateStage(existing, m, "skills"),
            TemplateStage(existing, m, "workflows"),
            SystemFilesStage(existing, m)>>)

\* ------------------------------------------------------------ the registry

\* what build_runtime_registry raises
RegistryRaises(m) ==
    LET Cmd(config) == IF ~config.obj THEN "TypeError"
                       ELSE IF config.owner.t = "absent" THEN "KeyError" ELSE "none"
        Agent(config) == IF ~config.obj THEN "TypeError"
                         ELSE IF config.description.t = "absent" THEN "KeyError"
                         ELSE "none"
        Skill(config) == IF ~config.obj THEN "TypeError"
                         ELSE IF config.owners.t = "absent" \/ config.triggers.t = "absent"
                         THEN "KeyError" ELSE "none"
        Section(key, One(_)) ==
            IF CanonicalAccess(m, key) # "none" THEN CanonicalAccess(m, key)
            ELSE FirstKind(Map(One, m[key].canonical))
    IN FirstKind(<<Section("commands", Cmd),
                   Section("agents", Agent),
                   Section("skills", Skill),
                   IF "schema_version" \in m.keys THEN "none" ELSE "KeyError",
                   IF "phase" \in m.keys THEN "none" ELSE "KeyError",
                   PolicyAccess(m)>>)

build_runtime_registry(m) ==
    LET Cmd(config) == [name |-> config.name, owner |-> config.owner]
        Agent(config) == [name |-> config.name, description |-> config.description]
        Skill(config) == [name |-> config.name, owners |-> config.owners,
                          triggers |-> config.triggers]
    IN [schema_version |-> m.schema_version,
        phase |-> m.phase,
        commands |-> Map(Cmd, m.commands.canonical),
        agents |-> Map(Agent, m.agents.canonical),
        skills |-> Map(Skill, m.skills.canonical),
        policy |-> m.skills.policy,
        command_policy |-> m.skills.command_policy]

\* json.dumps(data, indent=2) + "\n": a file is the JSON text of a document
\* followed by the tokens in tail
dump_json(data) == [exists |-> TRUE, doc |-> data, tail |-> <<NL>>]


\* ---------------------------------------------------------- drift detector

NoFile == [exists |-> FALSE, doc |-> <<>>, tail |-> <<>>]

RegistryOutOfSync == <<RUNTIME_REGISTRY_FILE, " is out of sync with ", MANIFEST_FILE,
                       "; run sync script">>
InstallOutOfSync == <<INSTALL_SCRIPT_FILE, " generated package block is out of sync with ",
                      MANIFEST_FILE>>
ReadmeOutOfSync(label) == <<label, " is out of sync with ", MANIFEST_FILE>>

\* try: extract_block, compare  except ValueError: errors.append(str(exc))
CompareBlock(text, begin, end, expected, out_of_sync) ==
    LET actual == extract_block(text, begin, end)
    IN IF actual.raised # "none" THEN <<actual.msg>>
       ELSE IF actual.value # expected THEN <<out_of_sync>>
       ELSE <<>>

readme_checks(m) ==
    << [begin |-> README_WHATS_INSIDE_BEGIN, end |-> README_WHATS_INSIDE_END,
        expected |-> render_readme_whats_inside_block(m),
        label |-> "README what's-inside block"],
       [begin |-> README_INSTALLER_COUNTS_BEGIN, end |-> README_INSTALLER_COUNTS_END,
        expected |-> render_readme_installer_counts_block(m),
        label |-> "README installer-count block"],
       [begin |-> README_INDEX_BEGIN, end |-> README_INDEX_END,
        expected |-> render_readme_index_block(m),
        label |-> "README index block"] >>

ArtifactStages(existing, registry_file, install_text, readme_text, m) ==
    LET SchemaStage ==
            Stage("none", IF <<MANIFEST_SCHEMA_FILE>> \notin existing
                          THEN << <<"manifest schema file missing: ", MANIFEST_SCHEMA_FILE>> >>
                          ELSE <<>>)
        RegistryStage ==
            IF RegistryRaises(m) # "none" THEN Stage(RegistryRaises(m), <<>>)
            ELSE IF ~registry_file.exists
            THEN Stage("none", << <<"generated runtime registry missing: ",
                                    RUNTIME_REGISTRY_FILE>> >>)
            ELSE IF registry_file # dump_json(build_runtime_registry(m))
            THEN Stage("none", <<RegistryOutOfSync>>)
            ELSE Stage("none", <<>>)
        InstallStage ==
            IF install_text = Missing
            THEN Stage("none", << <<"install script missing: ", INSTALL_SCRIPT_FILE>> >>)
            ELSE IF InstallBlockRaises(m) # "none" THEN Stage(InstallBlockRaises(m), <<>>)
            ELSE Stage("none", CompareBlock(install_text, INSTALL_BLOCK_BEGIN,
                                            INSTALL_BLOCK_END, render_install_block(m),
                                            InstallOutOfSync))
        Check(c) == CompareBlock(readme_text, c.begin, c.end, c.expected,
                                 ReadmeOutOfSync(c.label))
        ReadmeStage ==
            IF readme_text = Missing
            THEN Stage("none", << <<"README file missing: ", README_FILE>> >>)
            ELSE IF FirstKind(<<CountsRaises(m), IndexBlockRaises(m)>>) # "none"
            THEN Stage(FirstKind(<<CountsRaises(m), IndexBlockRaises(m)>>), <<>>)
            ELSE Stage("none", Flatten(Map(Check, readme_checks(m))))
    IN <<SchemaStage, RegistryStage, InstallStage, ReadmeStage>>

\* faulty variant: the check stops at the first error it finds
validate_generated_artifacts_fail_fast(existing, registry_file, install_text, readme_text, m) ==
    LET all == Chain(ArtifactStages(existing, registry_file, install_text, readme_text, m))
    IN IF all.errs = <<>> THEN all ELSE Stage(all.raised, <<all.errs[1]>>)

validate_generated_artifacts(existing, registry_file, install_text, readme_text, m) ==
    Chain(ArtifactStages(existing, registry_file, install_text, readme_text, m))

\* ------------------------------------------------------------ the programs

\* sys.exit(main()): the status main returns, or 1 after an uncaught exception
ExitStatus(kind, returned) == IF kind # "none" THEN 1 ELSE returned

Outcome(kind, returned, errs, stages, reg, inst, rd) ==
    [raised |-> kind, exitCode |-> ExitStatus(kind, returned), errors |-> errs,
     ran |-> stages, registry |-> reg, install |-> inst, readme |-> rd]

\* faulty variant: the three texts are computed first and written only when
\* none of them raised
sync_writes_all_or_nothing(existing, reg, inst, rd, m) ==
    LET new_registry == dump_json(build_runtime_registry(m))
        new_install == apply_generated_install_block(inst, m)
        new_readme == apply_generated_readme_blocks(rd, m)
        ReadmeRaises == FirstKind(<<CountsRaises(m), IndexBlockRaises(m)>>)
        kind == IF RegistryRaises(m) # "none" THEN RegistryRaises(m)
                ELSE IF inst = Missing THEN "FileNotFoundError"
                ELSE IF InstallBlockRaises(m) # "none" THEN InstallBlockRaises(m)
                ELSE IF new_install.raised # "none" THEN new_install.raised
                ELSE IF rd = Missing THEN "FileNotFoundError"
                ELSE IF ReadmeRaises # "none" THEN ReadmeRaises
                ELSE new_readme.raised
    IN IF kind # "none"
       THEN Outcome(kind, 1, <<>>, {"structure", "templates", "render"}, reg, inst, rd)
       ELSE Outcome("none", 0, <<>>, {"structure", "templates", "render"},
                    new_registry, new_install.value, new_readme.value)

\* what main() does once the validation gate is passed: the three writes
sync_writes(existing, reg, inst, rd, m) ==
    LET new_registry == dump_json(build_runtime_registry(m))
        new_install == apply_generated_install_block(inst, m)
        new_readme == apply_generated_readme_blocks(rd, m)
        ReadmeRaises == FirstKind(<<CountsRaises(m), IndexBlockRaises(m)>>)
    IN IF RegistryRaises(m) # "none"
       THEN Outcome(RegistryRaises(m), 1, <<>>, {"structure", "templates", "render"},
                    reg, inst, rd)
       ELSE IF inst = Missing
       THEN Outcome("FileNotFoundError", 1, <<>>, {"structure", "templates", "render"},
                    new_registry, inst, rd)
       ELSE IF InstallBlockRaises(m) # "none"
       THEN Outcome(InstallBlockRaises(m), 1, <<>>, {"structure", "templates", "render"},
                    new_registry, inst, rd)
       ELSE IF new_install.raised # "none"
       THEN Outcome(new_install.raised, 1, <<>>, {"structure", "templates", "render"},
                    new_registry, inst, rd)
       ELSE IF rd = Missing
       THEN Outcome("FileNotFoundError", 1, <<>>, {"structure", "templates", "render"},
                    new_registry, new_install.value, rd)
       ELSE IF ReadmeRaises # "none"
       THEN Outcome(ReadmeRaises, 1, <<>>, {"structure", "templates", "render"},
                    new_registry, new_install.value, rd)
       ELSE IF new_readme.raised # "none"
       THEN Outcome(new_readme.raised, 1, <<>>, {"structure", "templates", "render"},
                    new_registry, new_install.value, rd)
       ELSE Outcome("none", 0, <<>>, {"structure", "templates", "render"},
                    new_registry, new_install.value, new_readme.value)

\* faulty variant: the writes are made whatever the validators report
sync_main_ungated(existing, reg, inst, rd, m) ==
    LET structure == validate_manifest_structure(m)
        templates == validate_template_references(existing, m)
        errs == structure.errs \o templates.errs
        written == sync_writes(existing, reg, inst, rd, m)
    IN IF structure.raised # "none"
       THEN Outcome(structure.raised, 1, <<>>, {"structure"}, reg, inst, rd)
       ELSE IF templates.raised # "none"
       THEN Outcome(templates.raised, 1, <<>>, {"structure", "templates"}, reg, inst, rd)
       ELSE IF errs # <<>>
       THEN Outcome(written.raised, 1, errs, written.ran,
                    written.registry, written.install, written.readme)
       ELSE written

\* scripts/sync_toolkit_manifest.py main()
sync_main(existing, reg, inst, rd, m) ==
    LET structure == validate_manifest_structure(m)
        templates == validate_template_references(existing, m)
        errs == structure.errs \o templates.errs
    IN IF structure.raised # "none"
       THEN Outcome(structure.raised, 1, <<>>, {"structure"}, reg, inst, rd)
       ELSE IF templates.raised # "none"
       THEN Outcome(templates.raised, 1, <<>>, {"structure", "templates"}, reg, inst, rd)
       ELSE IF errs # <<>>
       THEN Outcome("none", 1, errs, {"structure", "templates"}, reg, inst, rd)
       ELSE sync_writes(existing, reg, inst, rd, m)

\* faulty variant: the check repairs what it finds out of sync (check and write fused)
validate_main_fused(existing, reg, inst, rd, m) ==
    LET structure == validate_manifest_structure(m)
        templates == validate_template_references(existing, m)
        artifacts == validate_generated_artifacts(existing, reg, inst, rd, m)
        errs == structure.errs \o templates.errs \o artifacts.errs
        written == sync_writes(existing, reg, inst, rd, m)
    IN IF structure.raised # "none"
       THEN Outcome(structure.raised, 1, <<>>, {"structure"}, reg, inst, rd)
       ELSE IF templates.raised # "none"
       THEN Outcome(templates.raised, 1, <<>>, {"structure", "templates"}, reg, inst, rd)
       ELSE IF artifacts.raised # "none"
       THEN Outcome(artifacts.raised, 1, <<>>, {"structure", "templates", "artifacts"},
                    reg, inst, rd)
       ELSE IF artifacts.errs # <<>>
       THEN Outcome("none", 1, errs, {"structure", "templates", "artifacts"},
                    written.registry, written.install, written.readme)
       ELSE Outcome("none", IF errs # <<>> THEN 1 ELSE 0, errs,
                    {"structure", "templates", "artifacts"}, reg, inst, rd)

\* scripts/validate_toolkit_manifest.py main()
validate_main(existing, reg, inst, rd, m) ==
    LET structure == validate_manifest_structure(m)
        templates == validate_template_references(existing, m)
        artifacts == validate_generated_artifacts(existing, reg, inst, rd, m)
        errs == structure.errs \o templates.errs \o artifacts.errs
    IN IF structure.raised # "none"
       THEN Outcome(structure.raised, 1, <<>>, {"structure"}, reg, inst, rd)
       ELSE IF templates.raised # "none"
       THEN Outcome(templates.raised, 1, <<>>, {"structure", "templates"}, reg, inst, rd)
       ELSE IF artifacts.raised # "none"
       THEN Outcome(artifacts.raised, 1, <<>>, {"structure", "templates", "artifacts"},
                    reg, inst, rd)
       ELSE Outcome("none", IF errs # <<>> THEN 1 ELSE 0, errs,
                    {"structure", "templates", "artifacts"}, reg, inst, rd)


\* ------------------------ skill routing checks (validate_skill_routing.py)

\* An agent file is known by its front matter: fm is "none" (the text does not
\* start with a --- line), "open" (no second --- follows) or "ok"; skills is
\* the value of the skills key: a list of names, a scalar, or absent.
AgentFile(fm, skills) == [fm |-> fm, skills |-> skills]

\* the skills entry of the parsed front matter (absent if there is none)
parse_frontmatter_lists(file) ==
    IF file.fm = "none" THEN Ok([skills |-> AbsentList])
    ELSE IF file.fm = "open"
    THEN Raise("ValueError", <<"not enough values to unpack (expected 3, got 2)">>)
    ELSE Ok([skills |-> file.skills])

\* registry["skills"] of a registry document
SkillRegistry(doc) == [canonical |-> doc.skills, command_policy |-> doc.command_policy]

\* position (i, j) comes before position (k, l) in the iteration
Before(a, b) == a[1] < b[1] \/ (a[1] = b[1] /\ a[2] < b[2])

\* faulty variant: only the phrases of the skills before this one are kept
seen_in_other_skills(occurrences, at, normalized) ==
    {o \in occurrences : o.normalized = normalized /\ o.at[1] < at[1]}

\* the entries of `seen` for a phrase when the loop is at a place: the
\* occurrences of the phrase before that place
seen(occurrences, at, normalized) ==
    {o \in occurrences : o.normalized = normalized /\ Before(o.at, at)}

validate_trigger_uniqueness(skill_registry) ==
    LET canonical == skill_registry.canonical
        HasTriggers(config) == config.triggers.t = "strlist" /\ config.triggers.v # <<>>
        \* every trigger the loop comes across, with its place and normal form
        Occ == UNION { { [skill |-> canonical[i].name, at |-> <<i, j>>,
                          normalized |-> NormalizeTrigger(canonical[i].triggers.v[j])] :
                            j \in 1..Len(canonical[i].triggers.v) } :
                       i \in {k \in 1..Len(canonical) : HasTriggers(canonical[k])} }
        Seen(at, normalized) == seen(Occ, at, normalized)
        First(at, normalized) ==
            CHOOSE o \in Seen(at, normalized) :
                \A p \in Seen(at, normalized) : o = p \/ Before(o.at, p.at)
        One(i) ==
            LET config == canonical[i]
                triggers == config.triggers
                Trigger(j) ==
                    LET normalized == NormalizeTrigger(triggers.v[j])
                    IN IF Seen(<<i, j>>, normalized) # {}
                       THEN << <<"duplicate trigger ", BT, Concat(triggers.v[j]), BT,
                                 " shared by ", BT, config.name, BT, " and ", BT,
                                 First(<<i, j>>, normalized).skill, BT>> >>
                       ELSE <<>>
            IN IF triggers.t = "absent" \/ (triggers.t = "strlist" /\ triggers.v = <<>>)
               THEN Stage("none", << <<"canonical skill ", BT, config.name, BT,
                                       " has no triggers">> >>)
               ELSE IF triggers.t # "strlist" THEN Stage("TypeError", <<>>)
               ELSE Stage("none", Flatten([j \in 1..Len(triggers.v) |-> Trigger(j)]))
    IN Chain([i \in 1..Len(canonical) |-> One(i)])

\* the names a list holds more than once
HasDuplicates(items) == Len(items) # Cardinality(Range(items))

\* faulty variant: the optional skills are not added to the covered set
covered_primary_only(command_policy) ==
    {q.primary.v : q \in {x \in Range(command_policy) :
                            x.obj /\ x.primary.t = "str"}}

\* the skills named by the policies, as primary or as optional
covered(command_policy) ==
    {q.primary.v : q \in {x \in Range(command_policy) :
                            x.obj /\ x.primary.t = "str"}}
    \cup UNION {Range(q.optional.v) :
                  q \in {x \in Range(command_policy) :
                           x.obj /\ x.optional.t = "strlist"}}

validate_command_policy(doc) ==
    LET canonical_commands == {c.name : c \in Range(doc.commands)}
        canonical_skills == {k.name : k \in Range(doc.skills)}
        command_policy == doc.command_policy
        KeysErrs ==
            IF Range(keys_in_order(command_policy)) # canonical_commands
            THEN << <<"command policy mismatch with canonical command set: ", "policy=">>
                    \o ListRepr(sorted(Range(keys_in_order(command_policy))))
                    \o <<", commands=">> \o ListRepr(sorted(canonical_commands)) >>
            ELSE <<>>
        One(policy) ==
            LET primary == policy.primary
                optional == policy.optional
                PrimaryErrs ==
                    IF primary.t = "str" /\ primary.v \in canonical_skills THEN <<>>
                    ELSE << <<"command ", BT, policy.name, BT, " primary skill ", BT,
                              PyStr(primary), BT, " is not canonical">> >>
                DuplicateErrs ==
                    IF HasDuplicates(optional.v)
                    THEN << <<"command ", BT, policy.name, BT,
                              " optional skills contain duplicates">> >>
                    ELSE <<>>
                Opt(skill_name) ==
                    (IF skill_name \notin canonical_skills
                     THEN << <<"command ", BT, policy.name, BT, " optional skill ", BT,
                               skill_name, BT, " is not canonical">> >>
                     ELSE <<>>)
                    \o
                    (IF primary.t = "str" /\ skill_name = primary.v
                     THEN << <<"command ", BT, policy.name, BT,
                               " optional skills include primary skill ", BT,
                               PyStr(primary), BT>> >>
                     ELSE <<>>)
            IN IF ~policy.obj THEN Stage("AttributeError", <<>>)
               ELSE IF primary.t = "list" THEN Stage("TypeError", <<>>)
               ELSE IF optional.t = "absent" THEN Stage("none", PrimaryErrs)
               ELSE IF optional.t # "strlist"
               THEN Stage("none", PrimaryErrs \o
                          << <<"command ", BT, policy.name, BT,
                               " optional skills must be a list">> >>)
               ELSE Stage("none", PrimaryErrs \o DuplicateErrs
                                  \o Flatten(Map(Opt, optional.v)))
        \* covered.update(policy.get("optional", [])) of a number
        CoverageRaises ==
            IF \E q \in Range(command_policy) : q.obj /\ q.optional.t = "int"
            THEN "TypeError" ELSE "none"
        uncovered == sorted(canonical_skills \ covered(command_policy))
        CoverageErrs ==
            IF uncovered # <<>>
            THEN << <<"canonical skills not used by any command policy: ">>
                    \o Join(Map(PlainPackage, uncovered), <<", ">>) >>
            ELSE <<>>
    IN IF doc.policy # "ok" THEN Stage("KeyError", <<>>)
       ELSE Chain(<<Stage("none", KeysErrs)>> \o Map(One, command_policy)
                  \o <<Stage(CoverageRaises, CoverageErrs)>>)

\* faulty variant: the skill list of an agent is read without the test that
\* its file exists
owner_skills_unchecked_file(existing, files, doc, owner) ==
    IF /\ owner.t = "str" /\ owner.v \in {a.name : a \in Range(doc.agents)}
       /\ parse_frontmatter_lists(files[owner.v]).raised = "none"
       /\ parse_frontmatter_lists(files[owner.v]).value.skills.t \in {"strlist", "absent"}
    THEN Range(parse_frontmatter_lists(files[owner.v]).value.skills.v)
    ELSE {}

\* agent_skill_map.get(owner or "", set()): the skills of the owner's file when
\* the owner is a canonical agent whose file exists and holds a skills list
owner_skills(existing, files, doc, owner) ==
    IF /\ owner.t = "str" /\ owner.v \in {a.name : a \in Range(doc.agents)}
       /\ AgentTemplate(owner.v) \in existing
       /\ parse_frontmatter_lists(files[owner.v]).raised = "none"
       /\ parse_frontmatter_lists(files[owner.v]).value.skills.t \in {"strlist", "absent"}
    THEN Range(parse_frontmatter_lists(files[owner.v]).value.skills.v)
    ELSE {}

\* agent_order: the order in which the set canonical_agents is iterated
validate_agent_alignment(existing, files, doc, agent_order) ==
    LET canonical_agents == {a.name : a \in Range(doc.agents)}
        canonical_skills == {k.name : k \in Range(doc.skills)}
        command_policy == doc.command_policy
        OwnersRaise ==
            IF \E c \in Range(doc.commands) : c.owner.t = "absent"
            THEN "KeyError" ELSE "none"
        \* command_owners.get(command_name)
        OwnerOf(command_name) ==
            LET hits == SelectSeq(doc.commands, LAMBDA c : c.name = command_name)
            IN IF hits = <<>> THEN Absent ELSE hits[1].owner
        Declared(agent_name) ==
            Range(parse_frontmatter_lists(files[agent_name]).value.skills.v)
        AgentStage(agent_name) ==
            LET metadata == parse_frontmatter_lists(files[agent_name])
                unknown == sorted(Declared(agent_name) \ canonical_skills)
            IN IF AgentTemplate(agent_name) \notin existing
               THEN Stage("none", << <<"missing canonical agent file: ">>
                                     \o AgentTemplate(agent_name) >>)
               ELSE IF metadata.raised # "none" THEN Stage(metadata.raised, <<>>)
               ELSE IF metadata.value.skills.t \notin {"strlist", "absent"}
               THEN Stage("none", << <<"agent ", BT, agent_name, BT,
                                       " has invalid skills frontmatter">> >>)
               ELSE IF unknown # <<>>
               THEN Stage("none", << <<"agent ", BT, agent_name, BT,
                                       " uses non-canonical skills: ">>
                                     \o Join(Map(PlainPackage, unknown), <<", ">>) >>)
               ELSE Stage("none", <<>>)
        PolicyStageOf(policy) ==
            LET owner == OwnerOf(policy.name)
                skills_of_owner == owner_skills(existing, files, doc, owner)
                primary == policy.primary
                optional == policy.optional
                PrimaryErrs ==
                    IF primary.t = "str" /\ primary.v # "" /\ primary.v \notin skills_of_owner
                    THEN << <<"command ", BT, policy.name, BT, " owner ", BT,
                              PyStr(owner), BT, " missing primary skill ", BT,
                              primary.v, BT>> >>
                    ELSE <<>>
                Opt(skill_name) ==
                    IF skill_name \notin skills_of_owner
                    THEN << <<"command ", BT, policy.name, BT, " owner ", BT,
                              PyStr(owner), BT, " missing optional skill ", BT,
                              skill_name, BT>> >>
                    ELSE <<>>
            IN IF owner.t = "list" THEN Stage("TypeError", <<>>)
               ELSE IF ~policy.obj THEN Stage("AttributeError", <<>>)
               ELSE IF primary.t = "list" THEN Stage("TypeError", <<>>)
               ELSE IF optional.t = "int" THEN Stage("TypeError", <<>>)
               ELSE Stage("none", PrimaryErrs \o Flatten(Map(Opt, optional.v)))
        SkillOwnersStage(config) ==
            LET Owner(owner) ==
                    IF owner \notin canonical_agents
                    THEN << <<"canonical skill ", BT, config.name, BT,
                              " references unknown owner ", BT, owner, BT>> >>
                    ELSE <<>>
            IN IF config.owners.t = "int" THEN Stage("TypeError", <<>>)
               ELSE Stage("none", Flatten(Map(Owner, config.owners.v)))
    IN IF OwnersRaise # "none" THEN Stage(OwnersRaise, <<>>)
       ELSE IF doc.policy # "ok" THEN Stage("KeyError", <<>>)
       ELSE Chain(Map(AgentStage, agent_order) \o Map(PolicyStageOf, command_policy)
                  \o Map(SkillOwnersStage, doc.skills))


\* ---------------------------------------------------------- agent routing
\* A query and a keyword are strings; keyword_map and scores are dicts, entries
\* in insertion order.

\* str.lower() on one character (the capitals in use)
str_lower(s) ==
    LET LowerChar(c) ==
            CASE c = "A" -> "a" [] c = "B" -> "b" [] c = "D" -> "d" [] c = "I" -> "i"
              [] c = "P" -> "p" [] c = "T" -> "t" [] c = "U" -> "u"
              [] OTHER -> c
    IN Concat([i \in 1..Len(s) |-> LowerChar(SubSeq(s, i, i))])

\* faulty variant: every occurrence is counted, overlapping ones too
str_count_overlapping(text, sub) ==
    IF sub = "" THEN Len(text) + 1
    ELSE Cardinality({i \in 1..(Len(text) - Len(sub) + 1) :
                         SubSeq(text, i, i + Len(sub) - 1) = sub})

\* str.count(sub): the leftmost occurrence from the place of the scan on is
\* counted and the scan resumes behind it; the empty string occurs between
\* all characters
str_count(text, sub) ==
    LET Occurrences(start) ==
            {i \in start..(Len(text) - Len(sub) + 1) :
                SubSeq(text, i, i + Len(sub) - 1) = sub}
        RECURSIVE CountFrom(_)
        CountFrom(start) ==
            LET hits == Occurrences(start)
                first == CHOOSE i \in hits : \A j \in hits : i <= j
            IN IF hits = {} THEN 0 ELSE 1 + CountFrom(first + Len(sub))
    IN IF sub = "" THEN Len(text) + 1 ELSE CountFrom(1)

\* faulty variant: on a tie the first agent with the best score is returned
route_query_first_winner(query, keyword_map) ==
    LET text == str_lower(query)
        RECURSIVE Sum(_)
        Sum(numbers) == IF numbers = <<>> THEN 0 ELSE Head(numbers) + Sum(Tail(numbers))
        Score(entry) ==
            [name |-> entry.name,
             score |-> Sum([k \in 1..Len(entry.keywords) |->
                               str_count(text, str_lower(entry.keywords[k]))])]
        scores == Map(Score, keyword_map)
        best_score == IF scores # <<>>
                      THEN CHOOSE b \in {e.score : e \in Range(scores)} :
                               \A e \in Range(scores) : e.score <= b
                      ELSE 0
        winners == SelectSeq(scores, LAMBDA e : e.score = best_score)
    IN IF best_score = 0 THEN [predicted |-> Absent, scores |-> scores]
       ELSE [predicted |-> Str(winners[1].name), scores |-> scores]

route_query(query, keyword_map) ==
    LET text == str_lower(query)
        RECURSIVE Sum(_)
        Sum(numbers) == IF numbers = <<>> THEN 0 ELSE Head(numbers) + Sum(Tail(numbers))
        Score(entry) ==
            [name |-> entry.name,
             score |-> Sum([k \in 1..Len(entry.keywords) |->
                               str_count(text, str_lower(entry.keywords[k]))])]
        scores == Map(Score, keyword_map)
        \* max(scores.values()) if scores else 0
        best_score == IF scores # <<>>
                      THEN CHOOSE b \in {e.score : e \in Range(scores)} :
                               \A e \in Range(scores) : e.score <= b
                      ELSE 0
        winners == SelectSeq(scores, LAMBDA e : e.score = best_score)
    IN IF best_score = 0 THEN [predicted |-> Absent, scores |-> scores]
       ELSE IF Len(winners) # 1 THEN [predicted |-> Absent, scores |-> scores]
       ELSE [predicted |-> Str(winners[1].name), scores |-> scores]

\* ---------------------------------------------------- reliability harness

CHECKS ==
    <<[name |-> "Manifest sync and asset integrity", command |-> "python3 scripts/validate_toolkit_manifest.py"],
      [name |-> "Command references", command |-> "python3 scripts/validate_command_references.py"],
      [name |-> "Markdown links", command |-> "python3 scripts/validate_markdown_links.py"],
      [name |-> "Command surface contracts", command |-> "python3 scripts/validate_command_surface.py"],
      [name |-> "Command smoke pass-rate gate", command |-> "python3 scripts/validate_command_smoke_rate.py"],
      [name |-> "Representative E2E scenarios", command |-> "python3 scripts/validate_e2e_scenarios.py"],
      [name |-> "Agent prompt budgets", command |-> "python3 scripts/validate_agent_consolidation.py"],
      [name |-> "Agent routing regressions", command |-> "python3 scripts/validate_agent_routing.py"],
      [name |-> "Skill prompt budgets", command |-> "python3 scripts/validate_skill_consolidation.py"],
      [name |-> "Skill routing coverage", command |-> "python3 scripts/validate_skill_routing.py"]>>

\* faulty variant: subprocess.run(..., check=True) raises on a non-zero exit
run_check_raising(check, returncode) ==
    IF returncode # 0 THEN Raise("CalledProcessError", <<check.command>>) ELSE Ok(TRUE)

\* run_check: ok of the subprocess that ended with returncode
run_check(check, returncode) == Ok(returncode = 0)

\* faulty variant: the harness fails only when no check passed
harness_exit_none_passed(passed, failed) == IF passed = 0 THEN 1 ELSE 0

\* the return value of main after the loop
harness_exit(passed, failed) == IF failed # 0 THEN 1 ELSE 0

\* ------------------------------------------------- the repository at rest

Command(name, owner) ==
    [name |-> name, obj |-> TRUE, owner |-> Str(owner),
     template |-> Path(CommandTemplate(name))]
Agent(name) ==
    [name |-> name, obj |-> TRUE, description |-> Str("agent"),
     template |-> Path(AgentTemplate(name))]
Skill(name, owners, triggers) ==
    [name |-> name, obj |-> TRUE, owners |-> StrList(owners),
     triggers |-> StrList(triggers), template |-> Path(SkillTemplate(name))]
Workflow(name) ==
    [name |-> name, obj |-> TRUE, template |-> Path(WorkflowTemplate(name))]
Policy(name, primary, optional) ==
    [name |-> name, obj |-> TRUE, primary |-> Str(primary),
     optional |-> StrList(optional)]
Platform(name, entries) == [name |-> name, entries |-> entries]

BaseManifest ==
    [keys |-> Range(required_top),
     schema_version |-> "1.0",
     phase |-> "phase-1",
     commands |-> [obj |-> TRUE, canon |-> "ok",
                   canonical |-> <<Command("inspect", "auditor"),
                                   Command("init", "builder")>>],
     agents |-> [obj |-> TRUE, canon |-> "ok",
                 canonical |-> <<Agent("builder"), Agent("auditor")>>],
     skills |-> [obj |-> TRUE, canon |-> "ok",
                 canonical |-> <<Skill("flows", <<"builder">>,
                                       << <<"build", " ", "flow">> >>),
                                 Skill("core-build", <<"builder", "auditor">>,
                                       << <<"scaffold", " ", "project">> >>)>>,
                 policy |-> "ok",
                 command_policy |-> <<Policy("inspect", "core-build", <<>>),
                                      Policy("init", "flows", <<"core-build">>)>>],
     workflows |-> [obj |-> TRUE, canon |-> "ok",
                    canonical |-> <<Workflow("create-crew")>>],
     installation |-> [obj |-> TRUE, sf |-> "ok",
                       system_files |->
                           <<Platform("claude", StrList(<<"templates/claude/CLAUDE.md">>)),
                             Platform("opencode", StrList(<<"templates/opencode/AGENTS.md">>))>>]]

\* names a maintainer may add to the manifest
NewCommands == {"fix"}
NewWorkflows == {"review", INSTALL_BLOCK_END}

\* the files of the repository (every template of a name in use or addable)
BasePaths ==
    { CommandTemplate(n) : n \in {"inspect", "init"} \cup NewCommands }
    \cup { AgentTemplate(n) : n \in {"builder", "auditor"} }
    \cup { SkillTemplate(n) : n \in {"flows", "core-build"} }
    \cup { WorkflowTemplate(n) : n \in {"create-crew"} \cup NewWorkflows }
    \cup { <<"templates/claude/CLAUDE.md">>, <<"templates/opencode/AGENTS.md">>,
           <<MANIFEST_SCHEMA_FILE>> }

BaseInstall ==
    <<"#!/usr/bin/env bash", NL>> \o render_install_block(BaseManifest)
    \o <<NL, "install_packages", NL>>

BaseReadme ==
    <<"# Toolkit", NL>> \o render_readme_whats_inside_block(BaseManifest)
    \o <<NL, "## Install", NL>> \o render_readme_installer_counts_block(BaseManifest)
    \o <<NL, "## Index", NL>> \o render_readme_index_block(BaseManifest)
    \o <<NL>>

\* what each agent file declares
BaseAgentFiles ==
    [a \in {"builder", "auditor"} |->
        IF a = "builder" THEN AgentFile("ok", StrList(<<"flows", "core-build">>))
        ELSE AgentFile("ok", StrList(<<"core-build">>))]

Init ==
    /\ manifest = BaseManifest
    /\ registry = dump_json(build_runtime_registry(BaseManifest))
    /\ install = BaseInstall
    /\ readme = BaseReadme
    /\ paths = BasePaths
    /\ agentFiles = BaseAgentFiles
    /\ lastOp = "none"
    /\ exitCode = 0
    /\ raised = "none"
    /\ errors = <<>>
    /\ ran = {}
    /\ edits = 0
    /\ syncs = 0
    \* route_query not called yet on the query and the keyword table of the
    \* first routing case
    /\ routing = [query |-> "please audit and review this build",
                  keyword_map |-> <<[name |-> "builder", keywords |-> <<"build", "scaffold">>],
                                    [name |-> "auditor", keywords |-> <<"audit", "review">>]>>,
                  called |-> FALSE, predicted |-> Absent, scores |-> <<>>]
    \* main of the harness at its loop: pc is the number of the check the loop
    \* is at (Len(CHECKS) + 1 behind it), exit the value main returned (-1
    \* while it runs)
    /\ harness = [pc |-> 1, passed |-> 0, failed |-> 0, report |-> <<>>,
                  returned |-> <<>>, raised |-> "none", exit |-> -1]

\* ------------------------------------------------------ maintainer's edits

RemoveAt(s, i) == SubSeq(s, 1, i - 1) \o SubSeq(s, i + 1, Len(s))
RemoveFirst(s, tok) == IF Find(s, tok, 1) = 0 THEN s ELSE RemoveAt(s, Find(s, tok, 1))

Kinds == {"commands", "agents", "skills", "workflows"}

\* an edit leaves the last program's report behind
Edited ==
    /\ edits < MaxEdits
    /\ edits' = edits + 1
    /\ lastOp' = "edit"
    /\ exitCode' = 0
    /\ raised' = "none"
    /\ errors' = <<>>
    /\ ran' = {}
    /\ UNCHANGED syncs

EditManifest(m) ==
    /\ Edited
    /\ m # manifest
    /\ manifest' = m
    /\ UNCHANGED <<registry, install, readme, paths, agentFiles, routing, harness>>

SetCommandOwner ==
    \E i \in 1..Len(manifest.commands.canonical),
       v \in {Str("ghost"), Absent, Unhashable} :
        EditManifest([manifest EXCEPT !.commands.canonical[i].owner = v])

\* the entries of a section that the edits below reach
Reach(k) == IF k = "commands" THEN 1..Len(manifest[k].canonical)
            ELSE IF manifest[k].canonical = <<>> THEN {} ELSE {1}

SetRecordNonObject ==
    \/ \E k \in Kinds : \E i \in Reach(k) \cup (IF k = "skills" THEN Reach("commands") ELSE {}) :
        /\ i <= Len(manifest[k].canonical)
        /\ EditManifest([manifest EXCEPT ![k].canonical[i].obj = FALSE])
    \/ \E i \in 1..Len(manifest.skills.command_policy) :
        EditManifest([manifest EXCEPT !.skills.command_policy[i].obj = FALSE])

RemoveEntity ==
    \/ \E k \in Kinds : \E i \in Reach(k) :
        EditManifest([manifest EXCEPT ![k].canonical = RemoveAt(@, i)])
    \/ /\ manifest.skills.command_policy # <<>>
       /\ EditManifest([manifest EXCEPT !.skills.command_policy = RemoveAt(@, 1)])

AddEntity ==
    \/ \E n \in NewCommands \ Range(command_canonical_names(manifest)) :
        EditManifest([manifest EXCEPT
                          !.commands.canonical = Append(@, Command(n, "builder"))])
    \/ \E n \in NewCommands \ Range(keys_in_order(manifest.skills.command_policy)) :
        EditManifest([manifest EXCEPT
                          !.skills.command_policy = Append(@, Policy(n, "flows", <<>>))])
    \/ \E n \in NewWorkflows \ Range(workflow_names(manifest)) :
        EditManifest([manifest EXCEPT !.workflows.canonical = Append(@, Workflow(n))])

SetSkillLists ==
    \E i \in 1..Len(manifest.skills.canonical) :
        \/ \E v \in {StrList(<<>>), StrList(<<"ghost">>), StrList(<<"phantom", "ghost">>),
                     BareStr(<<"x">>)} :
            EditManifest([manifest EXCEPT !.skills.canonical[i].owners = v])
        \/ \E v \in {StrList(<<>>), AbsentList,
                     StrList(<< <<"Scaffold", " ", "\t", "PROJECT">> >>)} :
            EditManifest([manifest EXCEPT !.skills.canonical[i].triggers = v])

SetPolicy ==
    \E i \in 1..Len(manifest.skills.command_policy) :
        \/ \E v \in {Str("ghost"), Absent, Unhashable} :
            EditManifest([manifest EXCEPT !.skills.command_policy[i].primary = v])
        \/ \E v \in {StrList(<<"ghost">>), StrList(<<"flows">>), StrList(<<"core-build">>),
                     StrList(<<"core-build", "core-build">>), IntVal} :
            EditManifest([manifest EXCEPT !.skills.command_policy[i].optional = v])

DropTopLevelKey ==
    \E key \in manifest.keys : EditManifest([manifest EXCEPT !.keys = @ \ {key}])

SetSectionShape ==
    \/ \E k \in Kinds : EditManifest([manifest EXCEPT ![k].obj = FALSE])
    \/ \E k \in {"commands", "skills"}, c \in {"missing", "bad"} :
        EditManifest([manifest EXCEPT ![k].canon = c])
    \/ EditManifest([manifest EXCEPT !.skills.policy = "missing"])
    \/ EditManifest([manifest EXCEPT !.installation.obj = FALSE])
    \/ EditManifest([manifest EXCEPT !.installation.sf = "missing"])

SetSchemaVersion == EditManifest([manifest EXCEPT !.schema_version = "2.0"])

SetTemplate ==
    \E k \in {"commands", "skills"} :
        \E v \in {Path(<<"templates/elsewhere.md">>)} \cup (IF k = "commands" THEN {NoPath} ELSE {}) :
            /\ manifest[k].canonical # <<>>
            /\ EditManifest([manifest EXCEPT ![k].canonical[1].template = v])

DropDescription ==
    /\ manifest.agents.canonical # <<>>
    /\ EditManifest([manifest EXCEPT !.agents.canonical[1].description = Absent])

SetSystemFiles ==
    \/ \E i \in 1..Len(manifest.installation.system_files) :
        \E v \in {StrList(<<>>), IntVal} :
            EditManifest([manifest EXCEPT !.installation.system_files[i].entries = v])
    \/ \E i \in 1..Len(manifest.installation.system_files) :
        EditManifest([manifest EXCEPT !.installation.system_files = RemoveAt(@, i)])
    \/ \E v \in {StrList(<<"templates/claude/CLAUDE.md">>), StrList(<<>>), IntVal} :
        /\ \A e \in Range(manifest.installation.system_files) : e.name # "cursor"
        /\ EditManifest([manifest EXCEPT !.installation.system_files =
                                            Append(@, Platform("cursor", v))])

Deletable ==
    {CommandTemplate("inspect"), <<"templates/claude/CLAUDE.md">>, <<MANIFEST_SCHEMA_FILE>>}

DeleteFile ==
    \E p \in paths \cap Deletable :
        /\ Edited
        /\ paths' = paths \ {p}
        /\ UNCHANGED <<manifest, registry, install, readme, agentFiles, routing, harness>>


\* --------------------------------------------- hand edits of the artifacts

EditInstall ==
    /\ Edited
    /\ install # Missing
    /\ \/ install' = Missing
       \/ \E tok \in {INSTALL_BLOCK_BEGIN, INSTALL_BLOCK_END, "PKG_SKILLS"} :
            /\ Find(install, tok, 1) # 0
            /\ install' = RemoveFirst(install, tok)
       \/ install' = <<INSTALL_BLOCK_END, NL>> \o install
    /\ UNCHANGED <<manifest, registry, readme, paths, agentFiles, routing, harness>>

EditReadme ==
    /\ Edited
    /\ readme # Missing
    /\ \/ readme' = Missing
       \/ \E tok \in {README_WHATS_INSIDE_BEGIN, README_INSTALLER_COUNTS_END,
                       README_INDEX_BEGIN,
                       " Skill Packs**", " Skills", "- **Workflows ("} :
            /\ Find(readme, tok, 1) # 0
            /\ readme' = RemoveFirst(readme, tok)
       \/ \E tok \in {README_INSTALLER_COUNTS_BEGIN, README_INDEX_END} :
            readme' = <<tok, NL>> \o readme
    /\ UNCHANGED <<manifest, registry, install, paths, agentFiles, routing, harness>>

EditRegistry ==
    /\ Edited
    /\ registry.exists
    /\ \/ registry' = NoFile
       \/ /\ registry.tail # <<>>
          /\ registry' = [registry EXCEPT !.tail = <<>>]
    /\ UNCHANGED <<manifest, install, readme, paths, agentFiles, routing, harness>>

\* ------------------------------------------------------- running a program

Report(op, o) ==
    /\ lastOp' = op
    /\ exitCode' = o.exitCode
    /\ raised' = o.raised
    /\ errors' = o.errors
    /\ ran' = o.ran
    /\ registry' = o.registry
    /\ install' = o.install
    /\ readme' = o.readme
    /\ UNCHANGED <<manifest, paths, agentFiles, edits, routing, harness>>

RunSync ==
    /\ syncs < MaxSyncs
    /\ syncs' = syncs + 1
    /\ Report("sync", sync_main(paths, registry, install, readme, manifest))

RunValidate ==
    /\ UNCHANGED syncs
    /\ Report("validate", validate_main(paths, registry, install, readme, manifest))

\* a direct call of validate_manifest_structure on the current manifest
CallValidateStructure ==
    LET o == validate_manifest_structure(manifest)
    IN /\ lastOp' = "structure"
       /\ raised' = o.raised
       /\ errors' = o.errs
       /\ ran' = {"structure"}
       /\ UNCHANGED <<manifest, registry, install, readme, paths, agentFiles, exitCode,
                       edits, syncs, routing, harness>>

\* the repository: a maintainer edits the manifest and the artifacts, and runs
\* the sync program and the validation program
Next ==
    \/ EditReadme
    \/ EditInstall
    \/ EditRegistry
    \/ DeleteFile
    \/ RemoveEntity
    \/ AddEntity
    \/ DropTopLevelKey
    \/ SetSchemaVersion
    \/ SetTemplate
    \/ DropDescription
    \/ RunSync
    \/ RunValidate

Spec == Init /\ [][Next]_vars

\* the structural validator alone, on every manifest a few edits away
NextValidator ==
    \/ SetSchemaVersion
    \/ SetCommandOwner
    \/ SetSkillLists
    \/ SetPolicy
    \/ RemoveEntity
    \/ AddEntity
    \/ SetRecordNonObject
    \/ DropTopLevelKey
    \/ SetSectionShape
    \/ SetSystemFiles
    \/ CallValidateStructure

SpecValidator == Init /\ [][NextValidator]_vars


\* ------------------------------------------ the registry and the agent files
\* as the skill routing checks find them

EditRegistryDoc(doc) ==
    /\ Edited
    /\ registry.exists
    /\ doc # registry.doc
    /\ registry' = [registry EXCEPT !.doc = doc]
    /\ UNCHANGED <<manifest, install, readme, paths, agentFiles, routing, harness>>

SetRegistryTriggers ==
    \E i \in 1..Len(registry.doc.skills) :
        \E v \in {AbsentList, StrList(<<>>),
                  StrList(<< <<"Scaffold", " ", "\t", "PROJECT">> >>),
                  StrList(<< <<"build", " ", "flow">>, <<" ", "Build", " ", " ", "flow">> >>),
                  StrList(<< <<"scaf", "fold", " ", "project", " ">>,
                             <<"build", "flow">> >>)} :
            EditRegistryDoc([registry.doc EXCEPT !.skills[i].triggers = v])

SetRegistryPolicy ==
    \E i \in 1..Len(registry.doc.command_policy) :
        \/ \E v \in {Str("ghost"), Str("core-build"), Absent} :
            EditRegistryDoc([registry.doc EXCEPT !.command_policy[i].primary = v])
        \/ \E v \in {StrList(<<>>), StrList(<<"ghost">>), StrList(<<"flows">>),
                     StrList(<<"core-build">>), StrList(<<"core-build", "core-build">>),
                     IntVal} :
            EditRegistryDoc([registry.doc EXCEPT !.command_policy[i].optional = v])

SetRegistryOwner ==
    \E i \in 1..Len(registry.doc.commands) :
        \E v \in {Str("ghost"), Str("builder"), Str("auditor")} :
            EditRegistryDoc([registry.doc EXCEPT !.commands[i].owner = v])

RemoveRegistryEntry ==
    \/ \E k \in {"commands", "agents", "skills", "command_policy"} :
        /\ registry.doc[k] # <<>>
        /\ EditRegistryDoc([registry.doc EXCEPT ![k] = RemoveAt(@, 1)])
    \/ /\ Len(registry.doc.command_policy) > 1
       /\ EditRegistryDoc([registry.doc EXCEPT !.command_policy = RemoveAt(@, 2)])

EditAgentFile ==
    \E a \in DOMAIN agentFiles :
        \E f \in {AgentFile("none", AbsentList), AgentFile("open", AbsentList),
                  AgentFile("ok", AbsentList), AgentFile("ok", BareStr(<<"flows">>)),
                  AgentFile("ok", StrList(<<"flows">>)),
                  AgentFile("ok", StrList(<<"core-build", "ghost">>))} :
            /\ Edited
            /\ f # agentFiles[a]
            /\ agentFiles' = [agentFiles EXCEPT ![a] = f]
            /\ UNCHANGED <<manifest, registry, install, readme, paths, routing, harness>>

DeleteAgentFile ==
    \E a \in DOMAIN agentFiles :
        /\ Edited
        /\ AgentTemplate(a) \in paths
        /\ paths' = paths \ {AgentTemplate(a)}
        /\ UNCHANGED <<manifest, registry, install, readme, agentFiles, routing, harness>>

\* a call of one of the skill routing checks on the registry as loaded
CallCheck(op, o) ==
    /\ registry.exists
    /\ lastOp' = op
    /\ raised' = o.raised
    /\ errors' = o.errs
    /\ ran' = {op}
    /\ UNCHANGED <<manifest, registry, install, readme, paths, agentFiles, exitCode,
                   edits, syncs, routing, harness>>

CallTriggerUniqueness ==
    CallCheck("triggers", validate_trigger_uniqueness(SkillRegistry(registry.doc)))

CallCommandPolicy ==
    CallCheck("policy", validate_command_policy(registry.doc))

\* the orders in which a set of names may be iterated
Orders(S) == {order \in [1..Cardinality(S) -> S] : Range(order) = S}

CallAgentAlignment ==
    \E agent_order \in Orders({a.name : a \in Range(registry.doc.agents)}) :
        CallCheck("alignment",
                  validate_agent_alignment(paths, agentFiles, registry.doc, agent_order))

\* the skill routing checks on every registry and agent files a few edits away
NextRouting ==
    \/ SetRegistryTriggers
    \/ SetRegistryPolicy
    \/ SetRegistryOwner
    \/ RemoveRegistryEntry
    \/ EditAgentFile
    \/ DeleteAgentFile
    \/ CallTriggerUniqueness
    \/ CallCommandPolicy
    \/ CallAgentAlignment

SpecRouting == Init /\ [][NextRouting]_vars

\* the command_policy checks of the validator and of the routing check, each on
\* the document it reads
NextPolicy ==
    \/ SetSchemaVersion
    \/ SetPolicy
    \/ SetRegistryPolicy
    \/ CallValidateStructure
    \/ CallCommandPolicy

SpecPolicy == Init /\ [][NextPolicy]_vars

\* ---------------------------------------------------- the routing scorer

\* a routing case: a query and a keyword table for the scorer
SetCase ==
    LET Queries ==
            {"please audit and review this build", "build and audit equally", "",
             "Please AUDIT the Build", "nothing matches here", "aaaa",
             "rebuild build scaffold", "audit audit review build", "aaa build"}
        KeywordMaps ==
            {<<[name |-> "builder", keywords |-> <<"build", "scaffold">>],
               [name |-> "auditor", keywords |-> <<"audit", "review">>]>>,
             <<[name |-> "auditor", keywords |-> <<"audit", "review">>],
               [name |-> "builder", keywords |-> <<"build", "scaffold">>]>>,
             <<>>,
             <<[name |-> "builder", keywords |-> <<"Build", "aa">>], [name |-> "auditor", keywords |-> <<>>]>>,
             <<[name |-> "builder", keywords |-> <<"build", "build">>], [name |-> "auditor", keywords |-> <<"audit">>],
               [name |-> "reviewer", keywords |-> <<"review", "">>]>>,
             <<[name |-> "builder", keywords |-> <<"aa">>], [name |-> "auditor", keywords |-> <<"aaa">>]>>,
             <<[name |-> "builder", keywords |-> <<"build">>]>>}
    IN \E query \in Queries : \E keyword_map \in KeywordMaps :
          /\ <<query, keyword_map>> # <<routing.query, routing.keyword_map>>
          /\ routing' = [query |-> query, keyword_map |-> keyword_map, called |-> FALSE,
                         predicted |-> Absent, scores |-> <<>>]
          /\ UNCHANGED <<manifest, registry, install, readme, paths, agentFiles, lastOp,
                         exitCode, raised, errors, ran, edits, syncs, harness>>

\* predicted, scores = route_query(case["query"], keyword_map)
CallRouteQuery ==
    LET result == route_query(routing.query, routing.keyword_map)
    IN /\ ~routing.called
       /\ routing' = [routing EXCEPT !.called = TRUE,
                                     !.predicted = result.predicted,
                                     !.scores = result.scores]
       /\ UNCHANGED <<manifest, registry, install, readme, paths, agentFiles, lastOp,
                    exitCode, raised, errors, ran, edits, syncs, harness>>

NextRouter ==
    \/ SetCase
    \/ CallRouteQuery

SpecRouter == Init /\ [][NextRouter]_vars

\* --------------------------------------------------- the harness at work

\* one turn of the loop: the check at pc is run, its subprocess ends with one
\* of the exit codes 0, 1, 2, and its record is printed
HarnessRunCheck ==
    \E returncode \in {0, 1, 2} :
        LET check == CHECKS[harness.pc]
            ran_check == run_check(check, returncode)
            ok == ran_check.value
            status == IF ok THEN "PASS" ELSE "FAIL"
        IN /\ harness.pc \in 1..Len(CHECKS)
           /\ harness' =
                IF ran_check.raised # "none"
                THEN [harness EXCEPT !.pc = Len(CHECKS) + 2,
                                     !.returned = Append(@, returncode),
                                     !.raised = ran_check.raised, !.exit = 1]
                ELSE [harness EXCEPT !.pc = @ + 1,
                                     !.passed = IF ok THEN @ + 1 ELSE @,
                                     !.failed = IF ok THEN @ ELSE @ + 1,
                                     !.returned = Append(@, returncode),
                                     !.report = Append(@, [status |-> status,
                                                           name |-> check.name])]
           /\ UNCHANGED <<manifest, registry, install, readme, paths, agentFiles, lastOp,
                    exitCode, raised, errors, ran, edits, syncs, routing>>

\* main behind the loop: the summary and the return value
HarnessFinish ==
    /\ harness.pc = Len(CHECKS) + 1
    /\ harness' = [harness EXCEPT !.pc = Len(CHECKS) + 2,
                                  !.exit = harness_exit(harness.passed, harness.failed)]
    /\ UNCHANGED <<manifest, registry, install, readme, paths, agentFiles, lastOp,
                    exitCode, raised, errors, ran, edits, syncs, routing>>

NextHarness ==
    \/ HarnessRunCheck
    \/ HarnessFinish

SpecHarness == Init /\ [][NextHarness]_vars

\* ===================================================================== claims

Markers ==
    {INSTALL_BLOCK_BEGIN, INSTALL_BLOCK_END,
     README_WHATS_INSIDE_BEGIN, README_WHATS_INSIDE_END,
     README_INSTALLER_COUNTS_BEGIN, README_INSTALLER_COUNTS_END,
     README_INDEX_BEGIN, README_INDEX_END}

\* the names of a section, read off its entries in insertion order
InsertionOrder(section) == [i \in 1..Len(section.canonical) |-> section.canonical[i].name]

Renderable(m) == IndexBlockRaises(m) = "none"

\* --------------------------------------------------------------------- C1
\* C1: applying the marker-replace step twice gives the same text as applying
\* it once: for the install script and the README on disk, whenever the first
\* application succeeds, a second application returns the text unchanged.
C1_ApplyTwiceSameAsOnce ==
    Renderable(manifest) =>
        /\ LET once == apply_generated_install_block(install, manifest)
           IN once.raised = "none" =>
                apply_generated_install_block(once.value, manifest) = once
        /\ LET once == apply_generated_readme_blocks(readme, manifest)
           IN once.raised = "none" =>
                apply_generated_readme_blocks(once.value, manifest) = once

\* --------------------------------------------------------------------- C2
IsDriftError(e) ==
    \/ e \in {RegistryOutOfSync, InstallOutOfSync}
    \/ e \in {ReadmeOutOfSync(c.label) : c \in Range(readme_checks(BaseManifest))}
    \/ e[1] \in {"missing start marker: ", "missing end marker: "}

\* the drift check of the given files reports no out-of-sync and no missing-marker error
DriftCheckClean(existing, reg, inst, rd, m) ==
    LET r == validate_generated_artifacts(existing, reg, inst, rd, m)
    IN /\ r.raised = "none"
       /\ \A i \in 1..Len(r.errs) : ~IsDriftError(r.errs[i])

\* C2 as stated: after every successful sync the drift check of the resulting
\* files with the same manifest is clean.
C2_SyncThenDriftCheckClean ==
    (lastOp = "sync" /\ exitCode = 0) =>
        DriftCheckClean(paths, registry, install, readme, manifest)

\* the region a marker pair delimits in a text: first begin marker, first end
\* marker at or after it (<<0, 0>> if there is none)
Region(text, begin, end) ==
    LET start == Find(text, begin, 1)
        stop == IF start = 0 THEN 0 ELSE Find(text, end, start)
    IN IF stop = 0 THEN <<0, 0>> ELSE <<start, stop>>

Disjoint(r1, r2) == r1[2] < r2[1] \/ r2[2] < r1[1]

\* the three README marker pairs delimit three regions, none overlapping another
IndependentBlocks(text) ==
    LET wi == Region(text, README_WHATS_INSIDE_BEGIN, README_WHATS_INSIDE_END)
        ic == Region(text, README_INSTALLER_COUNTS_BEGIN, README_INSTALLER_COUNTS_END)
        ix == Region(text, README_INDEX_BEGIN, README_INDEX_END)
    IN /\ wi[1] # 0 /\ ic[1] # 0 /\ ix[1] # 0
       /\ Disjoint(wi, ic) /\ Disjoint(wi, ix) /\ Disjoint(ic, ix)

NoMarkerNames(m) ==
    \A k \in Kinds : \A i \in 1..Len(m[k].canonical) : m[k].canonical[i].name \notin Markers

\* C2 amended: a successful sync of a README whose three marker pairs delimit
\* pairwise disjoint regions, for a manifest none of whose entity names holds
\* a marker, leaves files on which the drift check is clean.
C2_SyncThenDriftCheckCleanIfIndependent ==
    [][(syncs' = syncs + 1 /\ exitCode' = 0
        /\ IndependentBlocks(readme) /\ NoMarkerNames(manifest))
       => DriftCheckClean(paths', registry', install', readme', manifest')]_vars

\* a drifted repository was synced and the drift check of the result is clean
C2_Witness ==
    /\ lastOp = "sync" /\ exitCode = 0 /\ edits > 0
    /\ manifest # BaseManifest
    /\ NoMarkerNames(manifest) /\ IndependentBlocks(readme)
    /\ DriftCheckClean(paths, registry, install, readme, manifest)

\* --------------------------------------------------------------------- C4
\* the items of the bash array called name in a rendered install block: the
\* tokens before each closing quote, with the token before them
ArrayItems(block, name) ==
    LET p == Find(block, name, 1)
        q == Find(block, ")", p)
        closing == SelectSeq([i \in 1..Len(block) |-> i],
                             LAMBDA i : i > p /\ i < q /\ i > 2 /\ block[i] = "\""
                                        /\ block[i - 1] # NL)
    IN [j \in 1..Len(closing) |-> <<block[closing[j] - 2], block[closing[j] - 1]>>]

\* the back-tick quoted names of the index line that starts with header
IndexItems(block, header) ==
    LET p == Find(block, header, 1)
        nl == Find(block, NL, p)
        n == (nl - p - 3 + 1) \div 5
    IN [j \in 1..n |-> <<block[p + 3 + 5 * (j - 1) + 1], block[p + 3 + 5 * (j - 1) + 2]>>]

WithPrefix(prefix, names) == [i \in 1..Len(names) |-> <<prefix, names[i]>>]

\* C4: every rendered artifact lists the entities in the insertion order of
\* the manifest's canonical maps: the registry's maps, the four installer
\* arrays (with their prefixes) and the four lines of the README index.
C4_InsertionOrderKept ==
    Renderable(manifest) =>
        LET block == render_install_block(manifest)
            index == render_readme_index_block(manifest)
            doc == build_runtime_registry(manifest)
            cmds == InsertionOrder(manifest.commands)
            agts == InsertionOrder(manifest.agents)
            skls == InsertionOrder(manifest.skills)
            wfls == InsertionOrder(manifest.workflows)
        IN /\ ArrayItems(block, "PKG_SKILLS") = WithPrefix("    \"", skls)
           /\ ArrayItems(block, "PKG_AGENTS") = WithPrefix("crewai/", agts)
           /\ ArrayItems(block, "PKG_WORKFLOWS") = WithPrefix("    \"", wfls)
           /\ ArrayItems(block, "PKG_COMMANDS") = WithPrefix("crew/", cmds)
           /\ IndexItems(index, "- **Canonical commands (") = WithPrefix("/crew ", cmds)
           /\ IndexItems(index, "- **Canonical agents (") = WithPrefix("", agts)
           /\ IndexItems(index, "- **Canonical skill packs (") = WithPrefix("", skls)
           /\ IndexItems(index, "- **Workflows (") = WithPrefix("", wfls)
           /\ [i \in 1..Len(doc.commands) |-> doc.commands[i].name] = cmds
           /\ [i \in 1..Len(doc.agents) |-> doc.agents[i].name] = agts
           /\ [i \in 1..Len(doc.skills) |-> doc.skills[i].name] = skls

\* a third command was appended after "inspect", "init" (not the sorted order)
\* and the artifacts on disk were rendered from that manifest
C4_Witness ==
    /\ lastOp = "sync" /\ exitCode = 0
    /\ Renderable(manifest)
    /\ InsertionOrder(manifest.commands) = <<"inspect", "init", "fix">>
    /\ extract_block(install, INSTALL_BLOCK_BEGIN, INSTALL_BLOCK_END).value
         = render_install_block(manifest)


\* --------------------------------------------------------------------- C5
\* C5: a run of the validation program leaves the manifest, the registry
\* file, the install script and the README (and every other file) as they
\* were, whatever state they are in; a step that changes an artifact is a
\* run of the sync program or a hand edit.
C5_DriftCheckNeverWrites ==
    [][/\ lastOp' = "validate" =>
            UNCHANGED <<manifest, registry, install, readme, paths, agentFiles>>
       /\ (registry' # registry \/ install' # install \/ readme' # readme) =>
            lastOp' \in {"sync", "edit"}]_vars

\* the validation program ran on drifted artifacts, reported the drift, and
\* the artifacts are still drifted
C5_Witness ==
    /\ lastOp = "validate" /\ raised = "none" /\ exitCode = 1
    /\ \E i \in 1..Len(errors) : IsDriftError(errors[i])
    /\ ~DriftCheckClean(paths, registry, install, readme, manifest)

\* --------------------------------------------------------------------- C6
\* the five generated fragments: whether the file and the markers are there,
\* whether the fragment on disk differs from the rendered one, and the error
FragmentReport(name) ==
    LET Block(text, begin, end, expected, msg) ==
            LET actual == extract_block(text, begin, end)
            IN [present |-> text # Missing /\ actual.raised = "none",
                differs |-> actual.value # expected,
                msg |-> msg]
    IN CASE name = "registry" ->
              [present |-> registry.exists,
               differs |-> registry # dump_json(build_runtime_registry(manifest)),
               msg |-> <<"toolkit/registry.json", " is out of sync with ",
                         "toolkit/manifest.json", "; run sync script">>]
         [] name = "install" ->
              Block(install, INSTALL_BLOCK_BEGIN, INSTALL_BLOCK_END,
                    render_install_block(manifest),
                    <<"install.sh", " generated package block is out of sync with ",
                      "toolkit/manifest.json">>)
         [] name = "whats-inside" ->
              Block(readme, README_WHATS_INSIDE_BEGIN, README_WHATS_INSIDE_END,
                    render_readme_whats_inside_block(manifest),
                    <<"README what's-inside block", " is out of sync with ",
                      "toolkit/manifest.json">>)
         [] name = "installer-count" ->
              Block(readme, README_INSTALLER_COUNTS_BEGIN, README_INSTALLER_COUNTS_END,
                    render_readme_installer_counts_block(manifest),
                    <<"README installer-count block", " is out of sync with ",
                      "toolkit/manifest.json">>)
         [] name = "index" ->
              Block(readme, README_INDEX_BEGIN, README_INDEX_END,
                    render_readme_index_block(manifest),
                    <<"README index block", " is out of sync with ",
                      "toolkit/manifest.json">>)

Fragments == {"registry", "install", "whats-inside", "installer-count", "index"}

\* C6: when the validation program has run its drift check to the end, then
\* for each of the five fragments whose file and markers are present, the
\* out-of-sync error of that fragment is in the report if and only if the
\* fragment on disk differs from the freshly rendered one (so no fragment's
\* drift hides or causes the error of another).
C6_DriftExactPerFragment ==
    (lastOp = "validate" /\ raised = "none") =>
        \A f \in Fragments :
            FragmentReport(f).present =>
                (FragmentReport(f).msg \in Range(errors) <=> FragmentReport(f).differs)

\* the check reported one README block as out of sync while another block,
\* present and in sync, got no error
C6_Witness ==
    /\ lastOp = "validate" /\ raised = "none"
    /\ FragmentReport("installer-count").present
    /\ FragmentReport("installer-count").differs
    /\ FragmentReport("installer-count").msg \in Range(errors)
    /\ FragmentReport("index").present
    /\ ~FragmentReport("index").differs
    /\ FragmentReport("index").msg \notin Range(errors)
    /\ FragmentReport("install").present
    /\ FragmentReport("install").differs

\* --------------------------------------------------------------------- C7
\* C7: a run of the sync program on a manifest for which the structural
\* validator or the template resolver reports an error ends with exit code 1
\* and leaves the registry file, the install script and the README unwritten.
C7_ValidationGatesWrites ==
    [][(syncs' = syncs + 1
        /\ \/ validate_manifest_structure(manifest).errs # <<>>
           \/ validate_template_references(paths, manifest).errs # <<>>)
       => (exitCode' = 1 /\ UNCHANGED <<registry, install, readme>>)]_vars

\* sync was refused on validation errors while the artifacts were out of sync
C7_Witness ==
    /\ lastOp = "sync" /\ exitCode = 1 /\ raised = "none" /\ errors # <<>>
    /\ \/ validate_manifest_structure(manifest).errs # <<>>
       \/ validate_template_references(paths, manifest).errs # <<>>
    /\ registry.exists
    /\ registry # dump_json(build_runtime_registry(manifest))

\* --------------------------------------------------------------------- C8
StructuralError(m) == TopLevelErrors(m) # <<>> \/ ShapeErrors(m) # <<>>

\* C8: when the structural validator reports a missing top-level key or a
\* malformed section, the validation program and the sync program run neither
\* template resolution nor drift detection nor rendering, and end by printing
\* the error list with exit code 1, without an uncaught exception.
C8_StructuralErrorHalts ==
    (lastOp \in {"sync", "validate"} /\ StructuralError(manifest)) =>
        /\ ran = {"structure"}
        /\ raised = "none"
        /\ exitCode = 1
        /\ errors = validate_manifest_structure(manifest).errs

\* --------------------------------------------------------------------- C9
\* C9: a call of validate_manifest_structure returns a list of error strings
\* for every parsed manifest object; it never raises.
C9_StructureNeverRaises ==
    lastOp = "structure" => raised = "none"

\* -------------------------------------------------------------------- C10
\* the messages of the cross-reference violations of a manifest: a command
\* whose owner is no canonical agent, a skill with an owner that is no
\* canonical agent, a policy whose primary is no canonical skill
ViolationMessages(m) ==
    LET agents == Range(InsertionOrder(m.agents))
        skills == Range(InsertionOrder(m.skills))
    IN { <<"command ", BT, c.name, BT, " owner ", BT, c.owner.v, BT,
           " is not a canonical agent">> :
           c \in {x \in Range(m.commands.canonical) :
                    x.obj /\ x.owner.t = "str" /\ x.owner.v \notin agents} }
       \cup
       { <<"skill ", BT, k.name, BT, " has unknown owners: ">>
           \o Join(Map(PlainPackage, sorted(Range(k.owners.v) \ agents)), <<", ">>) :
           k \in {x \in Range(m.skills.canonical) :
                    x.obj /\ x.owners.t = "strlist" /\ Range(x.owners.v) \ agents # {}} }
       \cup
       { <<"command policy ", BT, q.name, BT, " references unknown primary skill ",
           BT, q.primary.v, BT>> :
           q \in {x \in Range(m.skills.command_policy) :
                    x.obj /\ x.primary.t = "str" /\ x.primary.v \notin skills} }

\* C10: for a manifest with all top-level keys and well-shaped sections, one
\* call of validate_manifest_structure returns the message of each of its
\* cross-reference violations.
C10_ErrorsAccumulated ==
    (lastOp = "structure" /\ ~StructuralError(manifest)) =>
        ViolationMessages(manifest) \subseteq Range(errors)

\* -------------------------------------------------------------------- C11
\* how often a message occurs in a list of messages
Count(msgs, msg) == Cardinality({i \in 1..Len(msgs) : msgs[i] = msg})

\* the messages of a list that are about the owner of the command called name
OwnerMessages(msgs, name) ==
    SelectSeq(msgs, LAMBDA e : Len(e) >= 5 /\ e[1] = "command " /\ e[3] = name
                               /\ e[5] = " owner ")

\* the commands whose owner is a name (or nothing) that no canonical agent has
DanglingOwners(m) ==
    {c \in Range(m.commands.canonical) :
        /\ c.obj
        /\ c.owner.t \in {"str", "absent"}
        /\ ~(c.owner.t = "str" /\ c.owner.v \in Range(InsertionOrder(m.agents)))}

\* C11: for a manifest with a command whose owner is no canonical agent, a
\* call of validate_manifest_structure returns exactly one error about that
\* command's owner, naming the command and the owner, and the errors of the
\* skill, command_policy and system_files checks are returned with it.
C11_DanglingOwnerOneError ==
    (lastOp = "structure" /\ ~StructuralError(manifest)) =>
        \A c \in DanglingOwners(manifest) :
            /\ raised = "none"
            /\ OwnerMessages(errors, c.name)
                 = << <<"command ", BT, c.name, BT, " owner ", BT, PyStr(c.owner), BT,
                        " is not a canonical agent">> >>
            /\ Range(SkillStage(manifest).errs) \subseteq Range(errors)
            /\ Range(PolicyStage(manifest).errs) \subseteq Range(errors)
            /\ Range(SystemFilesErrors(manifest)) \subseteq Range(errors)

\* -------------------------------------------------------------------- C12
\* the command_policy entries whose command is no longer canonical, when
\* every canonical command still has its entry
StalePolicies(m) ==
    IF Range(InsertionOrder(m.commands)) \subseteq Range(keys_in_order(m.skills.command_policy))
    THEN {q \in Range(m.skills.command_policy) :
            q.name \notin Range(InsertionOrder(m.commands))}
    ELSE {}

KeysMismatchMessages(msgs) ==
    SelectSeq(msgs, LAMBDA e : Len(e) >= 4 /\ e[2] = "skills.command_policy"
                               /\ e[4] = " keys must match canonical commands: ")

\* the messages of a list that are about the command_policy entry called name
PolicyMessages(msgs, name) ==
    SelectSeq(msgs, LAMBDA e : Len(e) >= 3 /\ e[1] = "command policy " /\ e[3] = name)

\* a command_policy entry whose primary and optional skills are canonical
\* skills, primary not among the optional ones
SoundPolicy(m, q) ==
    /\ q.obj
    /\ q.primary.t = "str" /\ q.primary.v \in Range(InsertionOrder(m.skills))
    /\ q.optional.t = "strlist"
    /\ Range(q.optional.v) \subseteq Range(InsertionOrder(m.skills)) \ {q.primary.v}

\* C12: for a manifest from which one canonical command was removed while
\* its command_policy entry stayed, a call of validate_manifest_structure
\* returns exactly one command_policy-keys-mismatch error, whatever else the
\* manifest contains, and no error about the stale entry when that entry names canonical
\* skills only.
C12_RemovedCommandOneMismatch ==
    (lastOp = "structure" /\ ~StructuralError(manifest)
     /\ Cardinality(StalePolicies(manifest)) = 1) =>
        /\ raised = "none"
        /\ Len(KeysMismatchMessages(errors)) = 1
        /\ \A q \in StalePolicies(manifest) :
              SoundPolicy(manifest, q) => PolicyMessages(errors, q.name) = <<>>

\* -------------------------------------------------------------------- C13
\* the entries of a command_policy whose optional list holds their primary skill
OptionalHoldsPrimary(command_policy) ==
    {q \in Range(command_policy) :
        /\ q.obj /\ q.primary.t = "str" /\ q.optional.t = "strlist"
        /\ q.primary.v \in Range(q.optional.v)}

\* C13: a command policy whose optional list holds its own primary skill gets
\* an optional-includes-primary error naming the command and the skill, from
\* validate_manifest_structure on the manifest and from
\* validate_command_policy on the registry.
C13_OptionalIncludesPrimaryRejected ==
    /\ (lastOp = "structure" /\ ~StructuralError(manifest)) =>
          \A q \in OptionalHoldsPrimary(manifest.skills.command_policy) :
              /\ raised = "none"
              /\ <<"command policy ", BT, q.name, BT, " optional includes primary skill ",
                   BT, q.primary.v, BT>> \in Range(errors)
    /\ lastOp = "policy" =>
          \A q \in OptionalHoldsPrimary(registry.doc.command_policy) :
              /\ raised = "none"
              /\ <<"command ", BT, q.name, BT, " optional skills include primary skill ",
                   BT, q.primary.v, BT>> \in Range(errors)

\* -------------------------------------------------------------------- C14
\* the validator returned the empty list for the manifest
ReportedValid == lastOp = "structure" /\ raised = "none" /\ errors = <<>>

\* C14: a manifest for which validate_manifest_structure returns the empty
\* list has every command owned by a canonical agent, command_policy keys
\* equal to the canonical commands, and every skill with a non-empty list of
\* owners, all canonical agents, and a non-empty list of triggers.
C14_ValidMeansOwnersKeysSkills ==
    ReportedValid =>
        LET agents == Range(InsertionOrder(manifest.agents))
        IN /\ \A c \in Range(manifest.commands.canonical) :
                c.owner.t = "str" /\ c.owner.v \in agents
           /\ Range(keys_in_order(manifest.skills.command_policy))
                = Range(InsertionOrder(manifest.commands))
           /\ \A k \in Range(manifest.skills.canonical) :
                /\ k.owners.t = "strlist" /\ k.owners.v # <<>>
                /\ Range(k.owners.v) \subseteq agents
                /\ k.triggers.t = "strlist" /\ k.triggers.v # <<>>

\* an edited manifest (a command added together with its policy) was
\* reported valid
C14_Witness ==
    /\ ReportedValid
    /\ Len(manifest.commands.canonical) = 3
    /\ Len(manifest.skills.command_policy) = 3

\* -------------------------------------------------------------------- C15
\* C15: a manifest for which validate_manifest_structure returns the empty
\* list has, in every command policy, a canonical primary skill and an
\* optional list of canonical skills that does not hold the primary skill and
\* holds no skill twice.
C15_ValidMeansSoundPolicies ==
    ReportedValid =>
        \A q \in Range(manifest.skills.command_policy) :
            SoundPolicy(manifest, q) /\ ~HasDuplicates(q.optional.v)

\* -------------------------------------------------------------------- C16
\* the normal forms of the trigger phrases of a skill record
NormalizedTriggers(config) ==
    IF config.triggers.t = "strlist"
    THEN {NormalizeTrigger(config.triggers.v[j]) : j \in 1..Len(config.triggers.v)}
    ELSE {}

\* the pairs of different skills with a trigger phrase of the same normal form
SharedTriggerPairs(skills) ==
    {pair \in (1..Len(skills)) \X (1..Len(skills)) :
        /\ pair[1] < pair[2]
        /\ NormalizedTriggers(skills[pair[1]]) \cap NormalizedTriggers(skills[pair[2]]) # {}}

\* C16: a manifest in which two skills carry trigger phrases that are equal
\* after case and whitespace normalization is not reported valid by
\* validate_manifest_structure.
C16_SharedTriggerNotValid ==
    SharedTriggerPairs(manifest.skills.canonical) # {} => ~ReportedValid

\* -------------------------------------------------------------------- C17
\* the template-mismatch messages of a list about the entity kind.canonical.name
MismatchMessages(msgs, kind, name) ==
    SelectSeq(msgs, LAMBDA e : Len(e) >= 6 /\ e[1] = BT /\ e[2] = kind
                               /\ e[3] = ".canonical." /\ e[4] = name /\ e[5] = BT
                               /\ e[6] = " template mismatch: expected ")

\* the missing-file messages of a list about a path
MissingFileMessages(msgs, path) ==
    SelectSeq(msgs, LAMBDA e : e = <<"missing referenced template file: ">> \o path)

\* C17: when the validation program has run the template resolver to the
\* end, every canonical command, agent, skill and workflow has exactly one of
\* three outcomes: one template-mismatch error and no missing-file error when
\* its declared path differs from the path of its kind's naming rule (also
\* when no file is at the declared path), one missing-file error and no
\* mismatch error when the path matches and no file is there, no error
\* otherwise.
C17_MismatchOrMissingOrNone ==
    (lastOp = "validate" /\ raised = "none") =>
        \A kind \in Kinds : \A e \in Range(manifest[kind].canonical) :
            LET expected == ExpectedTemplate(kind, e.name)
                matches == e.template.t = "str" /\ e.template.v = expected
                mismatch == Len(MismatchMessages(errors, kind, e.name))
                missing == Len(MissingFileMessages(errors, expected))
                           + (IF e.template.t = "str" /\ ~matches
                              THEN Len(MissingFileMessages(errors, e.template.v)) ELSE 0)
            IN /\ ~matches => (mismatch = 1 /\ missing = 0)
               /\ (matches /\ expected \notin paths) => (mismatch = 0 /\ missing = 1)
               /\ (matches /\ expected \in paths) => (mismatch = 0 /\ missing = 0)

\* the resolver reported a skill whose declared path is wrong (and leads to
\* no file) and a command whose template file is missing
C17_Witness ==
    /\ lastOp = "validate" /\ raised = "none"
    /\ \E k \in Range(manifest.skills.canonical) :
          /\ k.template.t = "str" /\ k.template.v # SkillTemplate(k.name)
          /\ k.template.v \notin paths
          /\ Len(MismatchMessages(errors, "skills", k.name)) = 1
    /\ \E c \in Range(manifest.commands.canonical) :
          /\ c.template = Path(CommandTemplate(c.name))
          /\ CommandTemplate(c.name) \notin paths
          /\ Len(MissingFileMessages(errors, CommandTemplate(c.name))) = 1

\* -------------------------------------------------------------------- C18
\* the command and skill names of the registries and agent files in play
RoutingCommands == {"inspect", "init"}
RoutingSkills == {"flows", "core-build", "ghost"}

\* the missing-skill messages of a list about command c and skill s
MissingSkillMessages(msgs, c, s) ==
    SelectSeq(msgs, LAMBDA e : Len(e) = 12 /\ e[1] = "command " /\ e[3] = c
                               /\ e[9] \in {" missing primary skill ",
                                            " missing optional skill "}
                               /\ e[11] = s)

\* the skills the policy of command c names, as primary or as optional
PolicySkillsOf(doc, c) ==
    UNION {(IF q.primary.t = "str" THEN {q.primary.v} ELSE {})
           \cup (IF q.optional.t = "strlist" THEN Range(q.optional.v) ELSE {}) :
           q \in {x \in Range(doc.command_policy) : x.name = c}}

\* the skill set the owner of command c declares; nothing when the command or
\* its owner is not canonical, when the owner's file is gone, or when the file
\* has no front matter or no skills list
DeclaredByOwnerOf(doc, c) ==
    UNION {Range(agentFiles[x.owner.v].skills.v) :
           x \in {y \in Range(doc.commands) :
                    /\ y.name = c /\ y.owner.t = "str"
                    /\ y.owner.v \in {a.name : a \in Range(doc.agents)}
                    /\ AgentTemplate(y.owner.v) \in paths
                    /\ agentFiles[y.owner.v].fm = "ok"
                    /\ agentFiles[y.owner.v].skills.t = "strlist"}}

\* C18: when validate_agent_alignment has returned its list, the list holds a
\* missing-skill error for command c and skill s exactly when s is the primary
\* or an optional skill of c's policy and s is not in the skill set that c's
\* owner declares, an owner without a readable skill list declaring nothing.
C18_MissingSkillIffNotDeclared ==
    (lastOp = "alignment" /\ raised = "none") =>
        \A c \in RoutingCommands : \A s \in RoutingSkills :
            (MissingSkillMessages(errors, c, s) # <<>>)
            <=> (s \in PolicySkillsOf(registry.doc, c)
                 /\ s \notin DeclaredByOwnerOf(registry.doc, c))

\* the check reported a skill missing for an owner whose file is gone, and
\* reported nothing for a policy skill that the other owner declares
C18_Witness ==
    /\ lastOp = "alignment" /\ raised = "none"
    /\ \E c \in RoutingCommands : \E s \in RoutingSkills :
          /\ \E x \in Range(registry.doc.commands) :
                x.name = c /\ x.owner.t = "str" /\ AgentTemplate(x.owner.v) \notin paths
          /\ s \in PolicySkillsOf(registry.doc, c)
          /\ MissingSkillMessages(errors, c, s) # <<>>
    /\ \E c \in RoutingCommands : \E s \in RoutingSkills :
          /\ s \in PolicySkillsOf(registry.doc, c)
          /\ s \in DeclaredByOwnerOf(registry.doc, c)
          /\ MissingSkillMessages(errors, c, s) = <<>>

\* -------------------------------------------------------------------- C19
\* the messages of a list about canonical skills that no policy uses
UncoveredMessages(msgs) ==
    SelectSeq(msgs, LAMBDA e : e[1] = "canonical skills not used by any command policy: ")

\* the canonical skills of a registry that no policy entry names, neither as
\* primary nor in optional
OrphanSkills(doc) ==
    {k.name : k \in Range(doc.skills)}
    \ UNION {PolicySkillsOf(doc, q.name) : q \in Range(doc.command_policy)}

\* C19: when validate_command_policy has returned its list, a canonical skill
\* is reported as not used by any command policy exactly when no policy entry
\* names it as primary or in optional, and one error names all such skills.
C19_OrphanSkillsInOneError ==
    (lastOp = "policy" /\ raised = "none") =>
        LET reports == UncoveredMessages(errors)
        IN IF OrphanSkills(registry.doc) = {}
           THEN reports = <<>>
           ELSE /\ Len(reports) = 1
                /\ Range(Tail(reports[1])) \ {", "} = OrphanSkills(registry.doc)

\* the check named an orphan skill in its one error and left out a skill that
\* only an optional list names
C19_Witness ==
    /\ lastOp = "policy" /\ raised = "none"
    /\ OrphanSkills(registry.doc) # {}
    /\ Len(UncoveredMessages(errors)) = 1
    /\ \E k \in Range(registry.doc.skills) :
          /\ k.name \notin OrphanSkills(registry.doc)
          /\ k.name \notin Range(Tail(UncoveredMessages(errors)[1]))
          /\ \A q \in Range(registry.doc.command_policy) :
                ~(q.primary.t = "str" /\ q.primary.v = k.name)

\* -------------------------------------------------------------------- C20
\* the places (skill i, trigger j) of the trigger phrases of a skill list
TriggerPlaces(skills) ==
    UNION {{<<i, j>> : j \in 1..Len(skills[i].triggers.v)} :
           i \in {k \in 1..Len(skills) : skills[k].triggers.t = "strlist"}}

\* the words of a phrase, lowercased: two phrases are the same phrase when
\* they differ in letter case and whitespace only
WordsOf(skills, at) == split(lower(skills[at[1]].triggers.v[at[2]]))

\* the duplicate-trigger messages of a list that quote one of the given phrases
DuplicateMessages(msgs, quoted) ==
    SelectSeq(msgs, LAMBDA e : Len(e) = 12 /\ e[1] = "duplicate trigger "
                               /\ e[3] \in quoted /\ e[5] = " shared by ")

\* C20: when validate_trigger_uniqueness has returned its list and a phrase
\* (up to letter case and whitespace) is a trigger of exactly two skills, once
\* in each, the list holds exactly one duplicate-trigger error about that
\* phrase and the error names both skills.
C20_TwoSkillsOneDuplicateError ==
    (lastOp = "triggers" /\ raised = "none") =>
        LET skills == registry.doc.skills
        IN \A a \in TriggerPlaces(skills) : \A b \in TriggerPlaces(skills) :
              LET same == {c \in TriggerPlaces(skills) :
                              WordsOf(skills, c) = WordsOf(skills, a)}
                  reports == DuplicateMessages(errors,
                                 {Concat(skills[c[1]].triggers.v[c[2]]) : c \in same})
              IN (a[1] < b[1] /\ same = {a, b}) =>
                    /\ Len(reports) = 1
                    /\ {reports[1][7], reports[1][11]}
                         = {skills[a[1]].name, skills[b[1]].name}

\* the check reported one duplicate for two skills whose phrases differ in
\* letter case and in whitespace
C20_Witness ==
    /\ lastOp = "triggers" /\ raised = "none"
    /\ LET skills == registry.doc.skills
       IN \E a \in TriggerPlaces(skills) : \E b \in TriggerPlaces(skills) :
             /\ a[1] < b[1]
             /\ skills[a[1]].triggers.v[a[2]] # skills[b[1]].triggers.v[b[2]]
             /\ lower(skills[a[1]].triggers.v[a[2]]) # skills[a[1]].triggers.v[a[2]]
             /\ {c \in TriggerPlaces(skills) : WordsOf(skills, c) = WordsOf(skills, a)}
                  = {a, b}
             /\ Len(DuplicateMessages(errors,
                        {Concat(skills[a[1]].triggers.v[a[2]]),
                         Concat(skills[b[1]].triggers.v[b[2]])})) = 1

\* -------------------------------------------------------------------- C21
RECURSIVE SumSeq(_)
\* the sum of a sequence of numbers
SumSeq(numbers) == IF numbers = <<>> THEN 0 ELSE Head(numbers) + SumSeq(Tail(numbers))

\* the greatest number of occurrences of sub in text no two of which overlap
NonOverlappingOccurrences(text, sub) ==
    LET places == {i \in 1..(Len(text) - Len(sub) + 1) :
                      SubSeq(text, i, i + Len(sub) - 1) = sub}
        apart == {S \in SUBSET places :
                     \A i \in S : \A j \in S : i < j => j - i >= Len(sub)}
    IN IF sub = "" THEN Len(text) + 1
       ELSE CHOOSE n \in 0..Cardinality(places) :
                /\ \E S \in apart : Cardinality(S) = n
                /\ \A S \in apart : Cardinality(S) <= n

\* C21: route_query returns, resolved or not, one score for every agent of
\* the keyword table, in the table's order, equal to the sum over the agent's
\* keywords of the number of non-overlapping occurrences of the lowercased
\* keyword in the lowercased query; the table {builder: [build, scaffold],
\* auditor: [audit, review]} and the query "please audit and review this
\* build" give builder 1 and auditor 2.
C21_ScoresAreKeywordCounts ==
    routing.called =>
        /\ Len(routing.scores) = Len(routing.keyword_map)
        /\ \A i \in 1..Len(routing.keyword_map) :
              LET entry == routing.keyword_map[i]
              IN /\ routing.scores[i].name = entry.name
                 /\ routing.scores[i].score =
                      SumSeq([k \in 1..Len(entry.keywords) |->
                                 NonOverlappingOccurrences(str_lower(routing.query),
                                                           str_lower(entry.keywords[k]))])
        /\ (routing.query = "please audit and review this build"
            /\ routing.keyword_map = <<[name |-> "builder", keywords |-> <<"build", "scaffold">>],
                                      [name |-> "auditor", keywords |-> <<"audit", "review">>]>>)
             => routing.scores = <<[name |-> "builder", score |-> 1],
                                   [name |-> "auditor", score |-> 2]>>
        /\ (routing.query = "Please AUDIT the Build"
            /\ routing.keyword_map = <<[name |-> "builder", keywords |-> <<"build", "scaffold">>],
                                      [name |-> "auditor", keywords |-> <<"audit", "review">>]>>)
             => routing.scores = <<[name |-> "builder", score |-> 1],
                                   [name |-> "auditor", score |-> 1]>>

\* an unresolved call whose scores are not zero, on a keyword with occurrences
\* that overlap
C21_Witness ==
    /\ routing.called
    /\ routing.predicted = Absent
    /\ \E e \in Range(routing.scores) : e.score > 0
    /\ \E entry \in Range(routing.keyword_map) : \E k \in 1..Len(entry.keywords) :
          /\ entry.keywords[k] # ""
          /\ NonOverlappingOccurrences(routing.query, entry.keywords[k])
               < Cardinality({i \in 1..(Len(routing.query) - Len(entry.keywords[k]) + 1) :
                                 SubSeq(routing.query, i, i + Len(entry.keywords[k]) - 1)
                                   = entry.keywords[k]})

\* -------------------------------------------------------------------- C22
\* the agents that route_query may resolve to: a score above zero and above
\* every other agent's score
StrictWinners(scores) ==
    {scores[i].name : i \in {k \in 1..Len(scores) :
        /\ scores[k].score > 0
        /\ \A j \in 1..Len(scores) : j # k => scores[j].score < scores[k].score}}

\* the same table with its agents in every order
Reorderings(keyword_map) ==
    {order \in [1..Len(keyword_map) -> Range(keyword_map)] :
        Range(order) = Range(keyword_map)}

\* C22: route_query resolves to an agent exactly when that agent's score is
\* above zero and strictly above every other agent's score; otherwise (best
\* score zero, empty table, a shared best score) the result is None; the
\* result is the same for every order of the agents in the table.
C22_ResolvesIffStrictWinner ==
    routing.called =>
        /\ \A e \in Range(routing.scores) :
              (routing.predicted = Str(e.name)) <=> (e.name \in StrictWinners(routing.scores))
        /\ StrictWinners(routing.scores) = {} => routing.predicted = Absent
        /\ \A order \in Reorderings(routing.keyword_map) :
              route_query(routing.query, order).predicted = routing.predicted

\* a call on a table of two agents that share the best score, not zero
C22_Witness ==
    /\ routing.called
    /\ routing.predicted = Absent
    /\ Len(routing.scores) = 2
    /\ routing.scores[1].score = routing.scores[2].score
    /\ routing.scores[1].score > 0
    /\ routing.query = "build and audit equally"

\* -------------------------------------------------------------------- C23
\* C23: the harness report is complete: at every point of the run the records
\* printed so far are those of the first checks of CHECKS, one each, in the
\* listed order, whatever the exit codes so far; a check that ended with a
\* non-zero exit code has a FAIL record and every other a PASS record; and
\* main returns only after the record of the last check.
C23_CompleteReportInOrder ==
    /\ Len(harness.report) = Len(harness.returned)
    /\ harness.pc \in 1..(Len(CHECKS) + 1) => Len(harness.report) = harness.pc - 1
    /\ \A i \in 1..Len(harness.report) :
          /\ harness.report[i].name = CHECKS[i].name
          /\ harness.report[i].status = (IF harness.returned[i] = 0 THEN "PASS" ELSE "FAIL")
    /\ harness.exit # -1 =>
          /\ harness.raised = "none"
          /\ [i \in 1..Len(harness.report) |-> harness.report[i].name]
               = [i \in 1..Len(CHECKS) |-> CHECKS[i].name]

\* the first check failed, a later one crashed with another exit code, and
\* the harness still printed the record of the last check and returned
C23_Witness ==
    /\ harness.exit # -1
    /\ Len(harness.report) = Len(CHECKS)
    /\ harness.returned[1] = 1
    /\ harness.report[1].status = "FAIL"
    /\ \E i \in 2..(Len(CHECKS) - 1) : harness.returned[i] = 2
    /\ harness.report[Len(CHECKS)].status = "PASS"

\* -------------------------------------------------------------------- C24
\* C24: when main has returned, its value is 1 if some check's subprocess
\* ended with a non-zero exit code and 0 otherwise, and passed + failed is the
\* number of checks.
C24_ExitOneIffSomeCheckFailed ==
    harness.exit # -1 =>
        /\ harness.exit \in {0, 1}
        /\ harness.exit = 1 <=> (\E i \in 1..Len(harness.returned) : harness.returned[i] # 0)
        /\ harness.passed + harness.failed = Len(CHECKS)

\* main returned 1 after a run in which one check failed and all others passed
C24_Witness ==
    /\ harness.exit = 1
    /\ harness.failed = 1
    /\ harness.passed = Len(CHECKS) - 1
    /\ \E i \in 1..Len(harness.returned) : harness.returned[i] = 2

\* -------------------------------------------------------------------- C25
\* a text with the marker pair of one of its generated blocks
Marked(text, begin_marker, end_marker) ==
    [text |-> text, begin_marker |-> begin_marker, end_marker |-> end_marker]

\* the texts and marker pairs that the apply step works on
MarkedTexts ==
    (IF install = Missing THEN {}
     ELSE {Marked(install, INSTALL_BLOCK_BEGIN, INSTALL_BLOCK_END)})
    \cup
    (IF readme = Missing THEN {}
     ELSE {Marked(readme, README_WHATS_INSIDE_BEGIN, README_WHATS_INSIDE_END),
           Marked(readme, README_INSTALLER_COUNTS_BEGIN, README_INSTALLER_COUNTS_END),
           Marked(readme, README_INDEX_BEGIN, README_INDEX_END)})

\* the places of a marker in a text
MarkerPlaces(text, marker) == {i \in 1..Len(text) : text[i] = marker}

\* a text has its begin marker and an end marker at or behind the first of them
HasBlock(mt) ==
    \E i \in MarkerPlaces(mt.text, mt.begin_marker) :
        /\ \A k \in MarkerPlaces(mt.text, mt.begin_marker) : i <= k
        /\ \E j \in MarkerPlaces(mt.text, mt.end_marker) : i <= j

\* C25: on every text of the repository, replace_block raises a ValueError
\* that names the begin marker when the text has no begin marker, raises one
\* that names the end marker when no end marker is at or behind the begin
\* marker (one before it does not count), and returns no text in both cases;
\* otherwise it returns a text.
C25_MissingMarkerRaises ==
    \A mt \in MarkedTexts : \A block \in {<<>>, <<"generated">>, <<"generated", NL>>} :
        LET result == replace_block(mt.text, mt.begin_marker, mt.end_marker, block)
        IN IF MarkerPlaces(mt.text, mt.begin_marker) = {}
           THEN /\ result.raised = "ValueError"
                /\ result.msg = <<"missing start marker: ", mt.begin_marker>>
                /\ result.value = <<>>
           ELSE IF ~HasBlock(mt)
           THEN /\ result.raised = "ValueError"
                /\ result.msg = <<"missing end marker: ", mt.end_marker>>
                /\ result.value = <<>>
           ELSE result.raised = "none" /\ result.value # <<>>

\* the sync program ended with the ValueError on an install script whose only
\* end marker is before the begin marker
C25_Witness ==
    /\ lastOp = "sync" /\ raised = "ValueError"
    /\ install # Missing
    /\ MarkerPlaces(install, INSTALL_BLOCK_BEGIN) # {}
    /\ MarkerPlaces(install, INSTALL_BLOCK_END) # {}
    /\ ~HasBlock(Marked(install, INSTALL_BLOCK_BEGIN, INSTALL_BLOCK_END))

\* -------------------------------------------------------------------- C26
\* a generated block of the install script or of the README lacks a marker
SomeMarkerMissing == \E mt \in MarkedTexts : ~HasBlock(mt)

\* C26: when the drift detector of the validation program, or the apply step
\* of the sync program, comes to an install script or a README that lacks a
\* begin or end marker, the program ends at once with the failure raised: the
\* missing marker is not an entry of the error list and no further check is
\* made.
C26_MissingMarkerIsHardFailure ==
    [][/\ (SomeMarkerMissing /\ lastOp' = "sync" /\ "render" \in ran') => raised' # "none"
       /\ (SomeMarkerMissing /\ lastOp' = "validate" /\ "artifacts" \in ran') =>
             (raised' # "none" /\ errors' = <<>>)]_vars

\* the half of it about the sync program
C26_SyncHalf ==
    [][(SomeMarkerMissing /\ lastOp' = "sync" /\ "render" \in ran') => raised' # "none"]_vars

\* -------------------------------------------------------------------- C27
\* C27: for a manifest with all required top-level keys and well-shaped
\* sections whose schema_version is not the supported one, a call of
\* validate_manifest_structure returns the schema_version error together with
\* the message of each cross-reference violation of the manifest.
C27_SchemaVersionDoesNotShortCircuit ==
    (lastOp = "structure" /\ ~StructuralError(manifest)
     /\ manifest.schema_version # "1.0") =>
        /\ raised = "none" => Range(SchemaErrors(manifest)) \subseteq Range(errors)
        /\ raised = "none" => ViolationMessages(manifest) \subseteq Range(errors)

\* -------------------------------------------------------------------- C28
\* C28: a manifest for which validate_manifest_structure returns the empty
\* list maps every platform under installation.system_files to a non-empty
\* list of strings, and the system_files loop of validate_template_references
\* goes through the entries of every platform without raising.
C28_ValidMeansEveryPlatformListed ==
    ReportedValid =>
        /\ \A e \in Range(manifest.installation.system_files) :
              e.entries.t = "strlist" /\ e.entries.v # <<>>
        /\ SystemFilesStage(paths, manifest).raised = "none"

\* -------------------------------------------------------------------- C29
\* the install script has its generated block
InstallHasBlock ==
    install # Missing /\ HasBlock(Marked(install, INSTALL_BLOCK_BEGIN, INSTALL_BLOCK_END))

\* C29: a run of the sync program that passes the validation gate and ends
\* with the ValueError of a missing marker has rewritten the targets before
\* the failing one and left the failing one and those behind it as they were:
\* the registry only when the install script lacks a marker; the registry and
\* the install script when the README lacks one.
C29_SyncWritesBeforeFailing ==
    [][(syncs' = syncs + 1 /\ "render" \in ran' /\ raised' = "ValueError") =>
          /\ registry' = dump_json(build_runtime_registry(manifest))
          /\ readme' = readme
          /\ IF InstallHasBlock
             THEN /\ install' = apply_generated_install_block(install, manifest).value
                  /\ readme # Missing
                  /\ \E mt \in MarkedTexts : mt.text = readme /\ ~HasBlock(mt)
             ELSE install' = install]_vars

\* the sync program stopped at a README without a marker after it had
\* rewritten the registry and the install script from an edited manifest
C29_Witness ==
    /\ lastOp = "sync" /\ raised = "ValueError" /\ "render" \in ran
    /\ manifest # BaseManifest
    /\ registry = dump_json(build_runtime_registry(manifest))
    /\ InstallHasBlock
    /\ install # BaseInstall
    /\ install = apply_generated_install_block(BaseInstall, manifest).value
    /\ readme # Missing
    /\ \E mt \in MarkedTexts : mt.text = readme /\ ~HasBlock(mt)

\* -------------------------------------------------------------------- C30
\* the places of a skill list whose phrase is that of place a, up to letter
\* case and whitespace
SamePhrase(skills, a) ==
    {c \in TriggerPlaces(skills) : WordsOf(skills, c) = WordsOf(skills, a)}

\* the first of a set of places in the order of the loops
FirstPlace(places) ==
    CHOOSE c \in places :
        \A d \in places : c[1] < d[1] \/ (c[1] = d[1] /\ c[2] <= d[2])

\* C30: when validate_trigger_uniqueness has returned its list, a phrase
\* that occurs n times (up to letter case and whitespace) has n - 1
\* duplicate-trigger errors, one for each occurrence after the first; each
\* names the skill of its occurrence and the skill of the first occurrence,
\* also when the two are the same skill.
C30_OneErrorPerLaterOccurrence ==
    (lastOp = "triggers" /\ raised = "none") =>
        LET skills == registry.doc.skills
        IN \A a \in TriggerPlaces(skills) :
              LET same == SamePhrase(skills, a)
                  first == FirstPlace(same)
                  reports == DuplicateMessages(errors,
                                 {Concat(skills[c[1]].triggers.v[c[2]]) : c \in same})
              IN /\ Len(reports) = Cardinality(same) - 1
                 /\ \A i \in 1..Len(reports) : reports[i][11] = skills[first[1]].name
                 /\ \A k \in 1..Len(skills) :
                       Cardinality({i \in 1..Len(reports) : reports[i][7] = skills[k].name})
                         = Cardinality({c \in same \ {first} : c[1] = k})

\* a phrase with more than two occurrences, two of them in the trigger list
\* of one skill, and an error that names that skill twice
C30_Witness ==
    /\ lastOp = "triggers" /\ raised = "none"
    /\ LET skills == registry.doc.skills
       IN \E a \in TriggerPlaces(skills) :
             /\ Cardinality(SamePhrase(skills, a)) >= 3
             /\ \E e \in Range(DuplicateMessages(errors,
                           {Concat(skills[c[1]].triggers.v[c[2]]) :
                              c \in SamePhrase(skills, a)})) : e[7] = e[11]

====
